---- MODULE Spec2Model ----
(***************************************************************************)
(* State-machine model of the ralph_wiggum orchestration kernel:           *)
(*   - StateStore (state.py): the persisted state record                    *)
(*   - validate_state (invariants.py): the invariant checker               *)
(*   - RunnerPool (tools/runner_pool.py): deterministic merge layer        *)
(*   - StaticScan.run (agents/static_scan.py)                              *)
(*   - Kernel.run (kernel.py) with its capability ledger and               *)
(*     ReportGenerator.write_report (reporting.py)                         *)
(*                                                                         *)
(* A Python dict is a record whose optional keys carry the marker ABSENT   *)
(* (strings), NONE (numbers) or a `present`/`keys` field.                  *)
(***************************************************************************)
EXTENDS Integers, Sequences, FiniteSets, TLC

VARIABLES
    store,      \* StateStore: the state file [exists, payload]
    state,      \* Kernel.run: its in-memory `state` dict
    pc,         \* Kernel.run: position ("idle","queue","static","graph","done","raised")
    todo,       \* Kernel.run: agents of agent_queue still to replay
    report,     \* artifacts/report.md as written by ReportGenerator
    runs,       \* number of Kernel.run calls started on this store
    hist,       \* observation of the current run (see HistInit)
    pool,       \* RunnerPool.run in progress (see PoolIdle)
    agent       \* a call of one agent method on its own (see AgentIdle)

vars == <<store, state, pc, todo, report, runs, hist, pool, agent>>

----------------------------------------------------------------------------
(* Bounds of the model *)

MaxRuns == 2        \* Kernel.run calls on one store
MaxSpent == 1       \* budget amounts are 0..MaxSpent
MaxJobs == 3        \* ToolJobs handed to RunnerPool.run

----------------------------------------------------------------------------
(* Python values *)

ABSENT == "absent"          \* key missing from a dict (string-valued keys)
NONE == -1                  \* None / key missing (number-valued keys)
MaxEscalation == 3          \* EscalationRouter.route clamps levels to 0..3

Range(s) == {s[i] : i \in 1..Len(s)}

\* Python's order on the strings the model uses (str.__lt__): position in
\* this list, which is sorted as sorted() sorts it.
SortedStrings ==
    << "", "TODO/FIXME marker found in Solidity source.", "[1]", "[2]",
       "a/quick_lint.log", "art/slither.json", "art/slither.log",
       "b/quick_lint.log", "contracts/Example.sol", "controlled-delegatecall",
       "dangerous_call", "delegatecall in proxy", "lint", "mixed", "quick_linter",
       "reentrancy", "reentrancy in withdraw", "reentrancy-eth",
       "reentrancy-unchecked-return-call", "slither",
       "timestamp", "timestamp dependence", "todo_comment",
       "unchecked return value", "unchecked-return", "unchecked_return",
       "unknown", "x", "y", "z" >>

StrRank(s) == CHOOSE i \in 1..Len(SortedStrings) : SortedStrings[i] = s

StrLt(a, b) == StrRank(a) < StrRank(b)

\* Lexicographic order on tuples of strings of equal length (tuple.__lt__).
RECURSIVE TupleLt(_, _)
TupleLt(s, t) ==
    IF s = <<>> \/ t = <<>> THEN FALSE
    ELSE IF Head(s) = Head(t) THEN TupleLt(Tail(s), Tail(t))
    ELSE StrLt(Head(s), Head(t))

\* sorted(set(xs)) for strings
RECURSIVE SortedSet(_)
SortedSet(S) ==
    IF S = {} THEN <<>>
    ELSE LET m == CHOOSE x \in S : \A y \in S : ~StrLt(y, x)
         IN <<m>> \o SortedSet(S \ {m})

----------------------------------------------------------------------------
(* Findings and tool results (tools/runner_pool.py) *)

\* A finding dict: `keys` are the keys it has; a key it lacks holds "" (or <<>>).
\* kind = "other" is a finding that is not a mapping.
Finding(kind, keys, tool, cat, chk, desc, path, lines, impact, conf, arts) ==
    [kind |-> kind, keys |-> keys, source_tool |-> tool, category |-> cat,
     check |-> chk, description |-> desc, path |-> path, lines |-> lines,
     impact |-> impact, confidence |-> conf, artifact_paths |-> arts]

\* finding.get(key, "")
FindingGet(f, key) == IF key \in f.keys THEN f[key] ELSE ""

\* RunnerPool._finding_sort_key: the six str()-coerced fields
_finding_sort_key(f) ==
    << FindingGet(f, "source_tool"), FindingGet(f, "category"), FindingGet(f, "check"),
       FindingGet(f, "description"), FindingGet(f, "path"), FindingGet(f, "lines") >>

\* ToolResult(name, artifacts, findings, payload)
ToolResult(name, artifacts, findings, payload) ==
    [name |-> name, artifacts |-> artifacts, findings |-> findings, payload |-> payload]

\* sorted(findings, key=RunnerPool._finding_sort_key): stable
RECURSIVE InsertFinding(_, _)
InsertFinding(f, done) ==
    IF done = <<>> THEN <<f>>
    ELSE IF TupleLt(_finding_sort_key(f), _finding_sort_key(Head(done)))
         THEN <<f>> \o done
         ELSE <<Head(done)>> \o InsertFinding(f, Tail(done))

RECURSIVE SortFindings(_)
SortFindings(fs) ==
    IF fs = <<>> THEN <<>>
    ELSE InsertFinding(fs[Len(fs)], SortFindings(SubSeq(fs, 1, Len(fs) - 1)))

\* sorted(results, key=lambda result: result.name): stable
RECURSIVE InsertResult(_, _)
InsertResult(r, done) ==
    IF done = <<>> THEN <<r>>
    ELSE IF StrLt(r.name, Head(done).name) THEN <<r>> \o done
    ELSE <<Head(done)>> \o InsertResult(r, Tail(done))

RECURSIVE SortResults(_)
SortResults(rs) ==
    IF rs = <<>> THEN <<>>
    ELSE InsertResult(rs[Len(rs)], SortResults(SubSeq(rs, 1, Len(rs) - 1)))

\* RunnerPool.run, given the results in the order they were appended to
\* `results`: job order when sequential, completion order when parallel.
RunnerPool_run(appended) == SortResults(appended)

RECURSIVE ConcatFindings(_)
ConcatFindings(rs) ==
    IF rs = <<>> THEN <<>> ELSE Head(rs).findings \o ConcatFindings(Tail(rs))

\* RunnerPool.merge_findings
merge_findings(results) == SortFindings(ConcatFindings(results))

\* RunnerPool.merge_artifacts
merge_artifacts(results) ==
    SortedSet(UNION {Range(results[i].artifacts) : i \in 1..Len(results)})

\* The orders in which n concurrent jobs can complete: bijections on 1..n.
CompletionOrders(n) ==
    {o \in [1..n -> 1..n] : \A i, j \in 1..n : o[i] = o[j] => i = j}

\* What RunnerPool.run(jobs) appends for job outputs `outs` (outs[i] is what
\* job i's runner returns) when the jobs complete in order `o`.
Appended(outs, parallel, o) ==
    IF ~parallel \/ Len(outs) <= 1 THEN outs
    ELSE [k \in 1..Len(outs) |-> outs[o[k]]]

----------------------------------------------------------------------------
(* The state record (the dict that StateStore persists) *)

\* A capability ledger entry.  In a map-shaped bucket `name` is the dict key
\* and `keys` are the keys of its detail dict; in a list-shaped bucket the
\* entry is a str (kind "str"), a dict with `keys` (kind "dict") or neither.
Entry(kind, keys, name, reason, evidence, status, started, finished, arts) ==
    [kind |-> kind, keys |-> keys, name |-> name, reason |-> reason,
     evidence |-> evidence, status |-> status, started_at |-> started,
     finished_at |-> finished, artifact_paths |-> arts]

\* capabilities[bucket]: shape "map" (dict, in insertion order), "list", or
\* ABSENT when the key is missing.
Bucket(shape, items) == [shape |-> shape, items |-> items]

NoCapabilities ==
    [present |-> FALSE, executed |-> Bucket(ABSENT, <<>>), skipped |-> Bucket(ABSENT, <<>>)]

\* {"executed": {}, "skipped": {}}: the Kernel's own default (kernel.py:54)
DefaultCapabilities ==
    [present |-> TRUE, executed |-> Bucket("map", <<>>), skipped |-> Bucket("map", <<>>)]

NoBudget == [present |-> FALSE, spent |-> NONE, cap |-> NONE, last_spent |-> NONE]

\* {"spent": 0, "cap": 0}: the Kernel's default (kernel.py:55)
DefaultBudget == [present |-> TRUE, spent |-> 0, cap |-> 0, last_spent |-> NONE]

ZeroSignals == [reentrancy |-> 0, unchecked_return |-> 0, delegatecall |-> 0]

\* state["graph_analysis"]: only its score is read by the agents
NoGraphAnalysis == [present |-> FALSE, score |-> NONE]

\* state["repair"] as RepairAgent.run writes it
NoRepair ==
    [present |-> FALSE, keys |-> {}, status |-> ABSENT, reason |-> ABSENT,
     patch_path |-> ABSENT, source_tool |-> ABSENT, confidence |-> ABSENT,
     description |-> ABSENT, verifier_result |-> [present |-> FALSE]]

\* state["llm_synthesis"] as Kernel._run_llm_synthesis writes it
NoLlmSynthesis == [present |-> FALSE, status |-> ABSENT, reason |-> ABSENT]

\* state["solodit"]: a skip record of Kernel._run_solodit, or the result of
\* SoloditSignalBooster.enrich
NoSolodit ==
    [present |-> FALSE, keys |-> {}, status |-> ABSENT, reason |-> ABSENT,
     source |-> ABSENT, pattern_matches |-> <<>>, disclaimer |-> ABSENT,
     artifact_paths |-> <<>>]

NoStaticScan ==
    [present |-> FALSE, keys |-> {}, status |-> ABSENT, reason |-> ABSENT,
     signals |-> ZeroSignals, evidence |-> <<>>, findings |-> <<>>,
     artifact_paths |-> <<>>]

\* The dict with no key at all.
EmptyState ==
    [status |-> ABSENT, target_path |-> ABSENT, capabilities |-> NoCapabilities,
     budget |-> NoBudget, escalation_level |-> NONE, escalation_previous |-> NONE,
     escalation_reason |-> FALSE, findings |-> [present |-> FALSE, items |-> <<>>],
     static_scan |-> NoStaticScan, graph_analysis |-> NoGraphAnalysis,
     repair |-> NoRepair, llm_synthesis |-> NoLlmSynthesis, solodit |-> NoSolodit,
     agent_queue |-> <<>>, invariant_errors |-> <<>>]

\* An error message of validate_state; idx and field fill the f-string.
Err(msg, idx, field) == [msg |-> msg, idx |-> idx, field |-> field]

----------------------------------------------------------------------------
(* validate_state (invariants.py) *)

\* A faulty _check_budget: the cap is checked only when spent has not
\* decreased (elif).
_check_budget_elif(st) ==
    LET budget == st.budget
        spent == budget.spent
        cap == budget.cap
        last_spent == IF budget.last_spent = NONE THEN spent ELSE budget.last_spent
    IN IF ~budget.present \/ spent = NONE
       THEN [errors |-> <<>>, state |-> st]
       ELSE [errors |->
                IF last_spent # NONE /\ spent < last_spent
                THEN <<Err("Budget spent decreased from previous value.", NONE, "")>>
                ELSE IF cap # NONE /\ spent > cap
                THEN <<Err("Budget spent exceeds budget cap.", NONE, "")>>
                ELSE <<>>,
             state |-> [st EXCEPT !.budget.last_spent = spent]]

\* A faulty _check_budget: the baseline is recorded only when no error is
\* reported.
_check_budget_baseline_if_ok(st) ==
    LET budget == st.budget
        spent == budget.spent
        cap == budget.cap
        last_spent == IF budget.last_spent = NONE THEN spent ELSE budget.last_spent
        errors == (IF last_spent # NONE /\ spent < last_spent
                   THEN <<Err("Budget spent decreased from previous value.", NONE, "")>>
                   ELSE <<>>)
                  \o
                  (IF cap # NONE /\ spent > cap
                   THEN <<Err("Budget spent exceeds budget cap.", NONE, "")>>
                   ELSE <<>>)
    IN IF ~budget.present \/ spent = NONE
       THEN [errors |-> <<>>, state |-> st]
       ELSE [errors |-> errors,
             state |-> IF errors = <<>> THEN [st EXCEPT !.budget.last_spent = spent]
                       ELSE st]

\* _check_budget: returns the errors it appends and the budget it leaves.
_check_budget(st) ==
    LET budget == st.budget
        spent == budget.spent
        cap == budget.cap
        last_spent == IF budget.last_spent = NONE THEN spent ELSE budget.last_spent
    IN IF ~budget.present \/ spent = NONE
       THEN [errors |-> <<>>, state |-> st]
       ELSE [errors |->
                (IF last_spent # NONE /\ spent < last_spent
                 THEN <<Err("Budget spent decreased from previous value.", NONE, "")>>
                 ELSE <<>>)
                \o
                (IF cap # NONE /\ spent > cap
                 THEN <<Err("Budget spent exceeds budget cap.", NONE, "")>>
                 ELSE <<>>),
             state |-> [st EXCEPT !.budget.last_spent = spent]]

\* A faulty _check_escalation: an unjustified decrease is undone, the level
\* is put back to the previous one.
_check_escalation_restores(st) ==
    LET current == st.escalation_level
        previous == IF st.escalation_previous = NONE THEN current
                    ELSE st.escalation_previous
    IN IF current = NONE
       THEN [errors |-> <<>>, state |-> st]
       ELSE IF current < previous /\ ~st.escalation_reason
       THEN [errors |->
                <<Err("Escalation level decreased without justification.", NONE, "")>>,
             state |-> [st EXCEPT !.escalation_level = previous]]
       ELSE [errors |-> <<>>, state |-> [st EXCEPT !.escalation_previous = current]]

\* _check_escalation
_check_escalation(st) ==
    LET current == st.escalation_level
        previous == IF st.escalation_previous = NONE THEN current
                    ELSE st.escalation_previous
    IN IF current = NONE
       THEN [errors |-> <<>>, state |-> st]
       ELSE [errors |->
                IF current < previous /\ ~st.escalation_reason
                THEN <<Err("Escalation level decreased without justification.", NONE, "")>>
                ELSE <<>>,
             state |-> [st EXCEPT !.escalation_previous = current]]

\* collect: state["findings"] then state["static_scan"]["findings"], each
\* only when it is a list (invariants.py:44-49, scoring.collect_findings)
collect_findings(st) ==
    (IF st.findings.present THEN st.findings.items ELSE <<>>)
    \o
    (IF st.static_scan.present /\ "findings" \in st.static_scan.keys
     THEN st.static_scan.findings ELSE <<>>)

ProvenanceFields == <<"source_tool", "artifact_paths", "confidence">>

\* the errors of one finding, idx counted from 0
FindingErrors(f, idx) ==
    IF f.kind # "dict" THEN <<Err("Finding is not a mapping.", idx, "")>>
    ELSE LET miss(k) == IF ProvenanceFields[k] \in f.keys THEN <<>>
                        ELSE <<Err("Finding missing provenance field.", idx,
                                   ProvenanceFields[k])>>
         IN miss(1) \o miss(2) \o miss(3)

RECURSIVE FindingsErrors(_, _)
FindingsErrors(fs, idx) ==
    IF fs = <<>> THEN <<>>
    ELSE FindingErrors(Head(fs), idx) \o FindingsErrors(Tail(fs), idx + 1)

\* _check_findings
_check_findings(st) == FindingsErrors(collect_findings(st), 0)

\* the errors for one entry of a list-shaped bucket
EntryErrors(e, bucket) ==
    IF e.kind = "str" THEN <<>>
    ELSE IF e.kind # "dict"
         THEN <<Err("Capabilities entry is not a mapping.", NONE, bucket)>>
    ELSE IF "name" \notin e.keys \/ "reason" \notin e.keys
         THEN <<Err("Capabilities entry missing name/reason.", NONE, bucket)>>
    ELSE <<>>

RECURSIVE EntriesErrors(_, _)
EntriesErrors(es, bucket) ==
    IF es = <<>> THEN <<>>
    ELSE EntryErrors(Head(es), bucket) \o EntriesErrors(Tail(es), bucket)

BucketErrors(b, bucket) ==
    IF b.shape # "list" THEN <<Err("Capabilities bucket is not a list.", NONE, bucket)>>
    ELSE EntriesErrors(b.items, bucket)

\* _check_capabilities
_check_capabilities(st) ==
    LET capabilities == st.capabilities
    IN IF ~capabilities.present
       THEN <<Err("Capabilities section missing from state.", NONE, "")>>
       ELSE IF capabilities.executed.shape = ABSENT \/ capabilities.skipped.shape = ABSENT
       THEN <<Err("Capabilities missing executed/skipped lists.", NONE, "")>>
       ELSE BucketErrors(capabilities.executed, "executed")
            \o BucketErrors(capabilities.skipped, "skipped")

\* validate_state: the error list, and the state with the baselines
\* (budget.last_spent, escalation_previous) it records.
validate_state(st) ==
    LET b == _check_budget(st)
        e == _check_escalation(b.state)
    IN [errors |-> b.errors \o e.errors \o _check_findings(e.state)
                   \o _check_capabilities(e.state),
        state |-> e.state]

----------------------------------------------------------------------------
(* StateStore (state.py) *)

NoFile == [exists |-> FALSE, payload |-> EmptyState]

\* StateStore.save: the file holds exactly the payload
save(payload) == [exists |-> TRUE, payload |-> payload]

\* A faulty ensure_state_file: the minimal record is written whether or not
\* the file exists.
ensure_state_file_always(st) == save([EmptyState EXCEPT !.status = "initialized"])

\* StateStore.ensure_state_file
ensure_state_file(st) ==
    IF st.exists THEN st ELSE save([EmptyState EXCEPT !.status = "initialized"])

\* StateStore.load
load(st) == IF st.exists THEN st.payload ELSE [EmptyState EXCEPT !.status = "missing"]

----------------------------------------------------------------------------
(* ReportGenerator (reporting.py) *)

NoReport ==
    [exists |-> FALSE, signals |-> ZeroSignals, executed |-> <<>>, skipped |-> <<>>,
     errors |-> <<>>]

\* the names of a map-shaped bucket, sorted
BucketNames(b) == SortedSet({b.items[i].name : i \in 1..Len(b.items)})

\* ReportGenerator._format_capabilities: "name (reason-or-status)" for every
\* key of a dict in sorted order; the empty string for anything but a dict.
_format_capabilities(b) ==
    IF b.shape # "map" THEN <<>>
    ELSE LET names == BucketNames(b)
             entry(n) == CHOOSE e \in Range(b.items) : e.name = n
             label(e) == IF "reason" \in e.keys THEN e.reason
                         ELSE IF "status" \in e.keys THEN e.status ELSE "unknown"
         IN [i \in 1..Len(names) |-> <<names[i], label(entry(names[i]))>>]

\* A faulty write_report: the "## Errors" section is never written.
write_report_without_errors(st) ==
    [exists |-> TRUE,
     signals |-> IF st.static_scan.present /\ "signals" \in st.static_scan.keys
                 THEN st.static_scan.signals ELSE ZeroSignals,
     executed |-> _format_capabilities(st.capabilities.executed),
     skipped |-> _format_capabilities(st.capabilities.skipped),
     errors |-> <<>>]

\* ReportGenerator.write_report: the sections of report.md that depend on the
\* state; `errors` is the "## Errors" section, written only when
\* invariant_errors is non-empty.
write_report(st) ==
    [exists |-> TRUE,
     signals |-> IF st.static_scan.present /\ "signals" \in st.static_scan.keys
                 THEN st.static_scan.signals ELSE ZeroSignals,
     executed |-> _format_capabilities(st.capabilities.executed),
     skipped |-> _format_capabilities(st.capabilities.skipped),
     errors |-> st.invariant_errors]

----------------------------------------------------------------------------
(* The capability ledger (kernel.py:203-230) *)

\* d[name] = entry on a dict kept in insertion order
RECURSIVE PutEntry(_, _)
PutEntry(items, e) ==
    IF items = <<>> THEN <<e>>
    ELSE IF Head(items).name = e.name THEN <<e>> \o Tail(items)
    ELSE <<Head(items)>> \o PutEntry(Tail(items), e)

\* state.setdefault("capabilities", {"executed": {}, "skipped": {}})
SetDefaultCapabilities(st) ==
    IF st.capabilities.present THEN st
    ELSE [st EXCEPT !.capabilities = DefaultCapabilities]

\* [path for path in artifact_paths if path]
RECURSIVE Truthy(_)
Truthy(paths) ==
    IF paths = <<>> THEN <<>>
    ELSE (IF Head(paths) \in {"", ABSENT} THEN <<>> ELSE <<Head(paths)>>)
         \o Truthy(Tail(paths))

\* Kernel._record_capability_executed.  capabilities["executed"][name] = {...}
\* stores into a dict; on a list it raises TypeError (name is a str) and on a
\* missing key KeyError: `raised`.
_record_capability_executed(st, name, status, started_at, finished_at, artifact_paths) ==
    LET s1 == SetDefaultCapabilities(st)
        e == Entry("dict", {"started_at", "finished_at", "artifact_paths", "status"},
                   name, ABSENT, ABSENT, status, started_at, finished_at,
                   Truthy(artifact_paths))
    IN IF s1.capabilities.executed.shape # "map"
       THEN [raised |-> TRUE, state |-> s1]
       ELSE [raised |-> FALSE,
             state |-> [s1 EXCEPT !.capabilities.executed.items = PutEntry(@, e)]]

\* Kernel._record_capability_skipped
_record_capability_skipped(st, name, reason, evidence) ==
    LET s1 == SetDefaultCapabilities(st)
        e == Entry("dict", {"reason", "evidence"}, name, reason, evidence, ABSENT,
                   NONE, NONE, <<>>)
    IN IF s1.capabilities.skipped.shape # "map"
       THEN [raised |-> TRUE, state |-> s1]
       ELSE [raised |-> FALSE,
             state |-> [s1 EXCEPT !.capabilities.skipped.items = PutEntry(@, e)]]

\* A faulty _handle_invariant_failure: the errors are stored but status is
\* left as it was.
_handle_invariant_failure_keeps_status(st, errors) ==
    [st EXCEPT !.invariant_errors = errors]

\* Kernel._handle_invariant_failure: the state it saves (and reports)
_handle_invariant_failure(st, errors) ==
    [st EXCEPT !.status = "failed_invariant", !.invariant_errors = errors]

----------------------------------------------------------------------------
(* StaticScan (agents/static_scan.py) and its tools *)

\* StaticScan.thresholds
thresholds == [reentrancy |-> 1, unchecked_return |-> 1, delegatecall |-> 1]

\* the artifact paths of the Slither adapter (static_scan.py:104-107)
SlitherArtifacts == <<"art/slither.json", "art/slither.log">>

\* which of the substrings that _extract_signals looks for a check contains
Tokens(check) ==
    CASE check = "reentrancy-eth" -> {"reentrancy"}
      [] check = "unchecked-return" -> {"unchecked", "return"}
      [] check = "controlled-delegatecall" -> {"delegatecall", "call"}
      [] check = "reentrancy-unchecked-return-call" ->
             {"reentrancy", "unchecked", "return", "call"}
      [] OTHER -> {}

\* A faulty if/elif chain: the call test comes first.
SignalOf_call_first(check) ==
    IF "delegatecall" \in Tokens(check) \/ "low-level" \in Tokens(check)
       \/ "call" \in Tokens(check)
    THEN "delegatecall"
    ELSE IF "reentrancy" \in Tokens(check) THEN "reentrancy"
    ELSE IF "unchecked" \in Tokens(check) /\ "return" \in Tokens(check)
         THEN "unchecked_return"
    ELSE "none"

\* the if/elif chain of _extract_signals: the signal a detector counts for
SignalOf(check) ==
    IF "reentrancy" \in Tokens(check) THEN "reentrancy"
    ELSE IF "unchecked" \in Tokens(check) /\ "return" \in Tokens(check)
         THEN "unchecked_return"
    ELSE IF "delegatecall" \in Tokens(check) \/ "low-level" \in Tokens(check)
            \/ "call" \in Tokens(check)
         THEN "delegatecall"
    ELSE "none"

\* the finding category recorded for a signal
CategoryOf(signal) == IF signal = "delegatecall" THEN "dangerous_call" ELSE signal

RECURSIVE CountSignal(_, _)
CountSignal(detectors, signal) ==
    IF detectors = <<>> THEN 0
    ELSE (IF SignalOf(Head(detectors).check) = signal THEN 1 ELSE 0)
         + CountSignal(Tail(detectors), signal)

RECURSIVE DetectorFindings(_)
DetectorFindings(detectors) ==
    IF detectors = <<>> THEN <<>>
    ELSE LET d == Head(detectors)
             sig == SignalOf(d.check)
         IN (IF sig = "none" THEN <<>>
             ELSE <<Finding("dict",
                            {"category", "check", "description", "impact", "confidence",
                             "source_tool", "artifact_paths"},
                            "slither", CategoryOf(sig), d.check, d.description, "", "",
                            d.impact,
                            IF d.confidence = ABSENT THEN "unknown" ELSE d.confidence,
                            SlitherArtifacts)>>)
            \o DetectorFindings(Tail(detectors))

\* StaticScan._extract_signals (the detectors of the model carry no
\* `elements`, so the evidence list is empty)
_extract_signals(slither_json) ==
    [signals |-> [reentrancy |-> CountSignal(slither_json.detectors, "reentrancy"),
                  unchecked_return |-> CountSignal(slither_json.detectors, "unchecked_return"),
                  delegatecall |-> CountSignal(slither_json.detectors, "delegatecall")],
     evidence |-> <<>>,
     findings |-> DetectorFindings(slither_json.detectors)]

\* StaticScan._should_escalate
_should_escalate(signals) ==
    \/ signals.reentrancy >= thresholds.reentrancy
    \/ signals.unchecked_return >= thresholds.unchecked_return
    \/ signals.delegatecall >= thresholds.delegatecall

\* StaticScan._run_slither: the adapter's JSON wrapped in a ToolResult
_run_slither(slither_json) == ToolResult("slither", SlitherArtifacts, <<>>, slither_json)

\* QuickLinterRunner.run: one finding per TODO line of the target, in line
\* order; `lines` is the str() of the one-element list.
RECURSIVE LintFindings(_, _)
LintFindings(linter, todoLines) ==
    IF todoLines = <<>> THEN <<>>
    ELSE <<Finding("dict",
                   {"category", "check", "description", "path", "lines", "source_tool",
                    "artifact_paths", "confidence"},
                   linter.name, "lint", "todo_comment",
                   "TODO/FIXME marker found in Solidity source.",
                   "contracts/Example.sol", Head(todoLines), "", "heuristic",
                   <<linter.log>>)>>
         \o LintFindings(linter, Tail(todoLines))

QuickLinterRunner_run(linter, todoLines) ==
    ToolResult(linter.name, <<linter.log>>, LintFindings(linter, todoLines),
               [detectors |-> <<>>])

RECURSIVE SelectResults(_, _)
SelectResults(results, keepSlither) ==
    IF results = <<>> THEN <<>>
    ELSE (IF (Head(results).name = "slither") = keepSlither THEN <<Head(results)>> ELSE <<>>)
         \o SelectResults(Tail(results), keepSlither)

\* StaticScan.run up to the record it stores in state["static_scan"].
\* `outs` are the ToolResults of the jobs in job order (slither first),
\* `o` the order in which the pool's concurrent jobs complete.
StaticScanRecord(outs, parallel, o) ==
    LET tool_results == RunnerPool_run(Appended(outs, parallel, o))
        slither_json == Head(SelectResults(tool_results, TRUE)).payload
        sig == _extract_signals(slither_json)
        linter_findings == merge_findings(SelectResults(tool_results, FALSE))
    IN [present |-> TRUE,
        keys |-> {"signals", "evidence", "findings", "artifacts", "artifact_paths"},
        status |-> ABSENT, reason |-> ABSENT,
        signals |-> sig.signals, evidence |-> sig.evidence,
        findings |-> SortFindings(sig.findings \o linter_findings),
        artifact_paths |-> merge_artifacts(tool_results)]

\* StaticScan.run: load, store the record, escalate, save
StaticScan_run(st, outs, parallel, o) ==
    LET rec == StaticScanRecord(outs, parallel, o)
        s1 == [load(st) EXCEPT !.static_scan = rec]
        s2 == IF _should_escalate(rec.signals)
              THEN [s1 EXCEPT !.escalation_level = 1] ELSE s1
    IN save(s2)

----------------------------------------------------------------------------
(* Inputs: what the tools return and how the Kernel is configured *)

Detector(check, description, impact, confidence) ==
    [check |-> check, description |-> description, impact |-> impact,
     confidence |-> confidence]

DReentrancy == Detector("reentrancy-eth", "reentrancy in withdraw", "High", "Medium")
DUnchecked == Detector("unchecked-return", "unchecked return value", "Medium", "High")
DDelegate == Detector("controlled-delegatecall", "delegatecall in proxy", "High", ABSENT)
DTimestamp == Detector("timestamp", "timestamp dependence", "Low", "Low")
\* a check name in which every substring _extract_signals looks for occurs
DMixed == Detector("reentrancy-unchecked-return-call", "mixed", "High", "High")

\* SlitherRunner.run: unavailable, timed out, or a JSON report
SlitherOutputs ==
    { [status |-> "skipped", reason |-> "slither_unavailable", detectors |-> <<>>],
      [status |-> "failed", reason |-> "slither_timeout", detectors |-> <<>>] }
    \cup
    { [status |-> "success", reason |-> ABSENT, detectors |-> ds] :
        ds \in { <<DTimestamp>>, <<DReentrancy>>, <<DMixed>>,
                 <<DReentrancy, DUnchecked, DDelegate>> } }

\* QuickLinterRunner(artifacts_dir): name defaults to "quick_linter"
SeqsUpTo(S, n) == UNION {[1..k -> S] : k \in 0..n}

LinterA == [name |-> "quick_linter", log |-> "a/quick_lint.log"]
LinterB == [name |-> "quick_linter", log |-> "b/quick_lint.log"]

\* Kernel.quick_linters: none, one, or two linters writing to different
\* artifact directories
LinterConfigs == { <<>>, <<LinterA>>, <<LinterA, LinterB>> }

\* the TODO/FIXME lines of the target's Solidity file, as str([line])
TodoLines == { <<>>, <<"[1]">> }

\* datetime.now(): the instants a run can read
MaxClock == 1
Clock == 1..MaxClock

----------------------------------------------------------------------------
(* Kernel.run (kernel.py:44-201) *)

\* What the current run has done so far, kept for stating properties:
\*   fresh      the run found no state file
\*   status0    status on disk when the run started (after ensure_state_file)
\*   checked    the state handed to the most recent validate_state call
\*   errors     what that call returned
\*   calls      validate_state calls made in this run
\*   stage      the last stage that ran ("none", "replay", "static_scan")
\*   slither    the status the Slither adapter returned to the static stage
\*   detectors  the detectors of the report it returned
\*   sequential the static_scan record a parallel_tools=False run persists
\*              from the same tool outputs
HistInit ==
    [fresh |-> FALSE, status0 |-> ABSENT, checked |-> EmptyState, errors |-> <<>>,
     calls |-> 0, stage |-> "none", slither |-> ABSENT, detectors |-> <<>>,
     sequential |-> NoStaticScan]

\* A faulty preparation: the budget is assigned, not defaulted.
Prepared_resets_budget(st, target_path) ==
    LET l == load(ensure_state_file(st))
        a == IF l.status = ABSENT THEN [l EXCEPT !.status = "running"] ELSE l
        b == SetDefaultCapabilities(a)
    IN [b EXCEPT !.budget = DefaultBudget, !.target_path = target_path]

\* kernel.py:50-57: ensure, load, setdefault x3, target_path
Prepared(st, target_path) ==
    LET l == load(ensure_state_file(st))
        a == IF l.status = ABSENT THEN [l EXCEPT !.status = "running"] ELSE l
        b == SetDefaultCapabilities(a)
        c == IF b.budget.present THEN b ELSE [b EXCEPT !.budget = DefaultBudget]
    IN [c EXCEPT !.target_path = target_path]

\* kernel.py:44-57: create the file if missing, load, fill the defaults, save
RunStart ==
    /\ pc \in {"idle", "done", "raised"}
    /\ runs < MaxRuns
    /\ runs' = runs + 1
    /\ LET st == Prepared(store, "target")
       IN /\ store' = save(st)
          /\ state' = st
    /\ pc' = "validate"
    /\ todo' = <<>>
    /\ hist' = [HistInit EXCEPT !.fresh = ~store.exists,
                                !.status0 = ensure_state_file(store).payload.status]
    /\ UNCHANGED <<report, pool, agent>>

\* kernel.py:59-62: the first validate_state call, then agent_queue is read
InitialValidate ==
    /\ pc = "validate"
    /\ LET v == validate_state(state)
       IN /\ hist' = [hist EXCEPT !.checked = state, !.errors = v.errors, !.calls = 1]
          /\ IF v.errors # <<>>
             THEN LET f == _handle_invariant_failure(v.state, v.errors)
                  IN /\ store' = save(f)
                     /\ report' = write_report(f)
                     /\ pc' = "done"
                     /\ state' = EmptyState
                     /\ todo' = <<>>
             ELSE /\ pc' = "replay"
                  /\ state' = v.state
                  /\ todo' = v.state.agent_queue
                  /\ UNCHANGED <<store, report>>
    /\ UNCHANGED <<runs, pool, agent>>

\* kernel.py:63-76: one iteration of the agent_queue loop
ReplayAgent ==
    /\ pc = "replay"
    /\ todo # <<>>
    /\ \E now \in Clock :
         LET r == _record_capability_executed(state, Head(todo), "queued", now, now, <<>>)
             v == validate_state(r.state)
         IN IF r.raised
            THEN /\ pc' = "raised"
                 /\ state' = EmptyState
                 /\ todo' = <<>>
                 /\ hist' = [hist EXCEPT !.stage = "replay"]
                 /\ UNCHANGED <<store, report>>
            ELSE /\ hist' = [hist EXCEPT !.stage = "replay", !.checked = r.state,
                                         !.errors = v.errors, !.calls = @ + 1]
                 /\ IF v.errors # <<>>
                    THEN LET f == _handle_invariant_failure(v.state, v.errors)
                         IN /\ store' = save(f)
                            /\ report' = write_report(f)
                            /\ pc' = "done"
                            /\ state' = EmptyState
                            /\ todo' = <<>>
                    ELSE /\ store' = save(v.state)
                         /\ report' = report
                         /\ pc' = "replay"
                         /\ state' = v.state
                         /\ todo' = Tail(todo)
    /\ UNCHANGED <<runs, pool, agent>>

RECURSIVE LinterResults(_, _)
LinterResults(linters, todoLines) ==
    IF linters = <<>> THEN <<>>
    ELSE <<QuickLinterRunner_run(Head(linters), todoLines)>>
         \o LinterResults(Tail(linters), todoLines)

\* the completion orders RunnerPool.run can see for n jobs: one (job order)
\* unless the jobs run concurrently
OrdersFor(parallel, n) ==
    IF parallel /\ n > 1 THEN CompletionOrders(n) ELSE {[i \in 1..n |-> i]}

\* kernel.py:78-113: the static-analysis stage when state has no static_scan
\* (each intermediate value is bound by \E over a one-element set, so that it
\* is computed once)
StaticScanStage ==
    /\ pc = "replay"
    /\ todo = <<>>
    /\ ~state.static_scan.present
    /\ \E slither_json \in SlitherOutputs, quick_linters \in LinterConfigs,
          todoLines \in TodoLines, parallel_tools \in BOOLEAN :
         LET outs == <<_run_slither(slither_json)>>
                     \o LinterResults(quick_linters, todoLines)
         IN \E o \in OrdersFor(parallel_tools, Len(outs)), now \in Clock :
            \E s2 \in {StaticScan_run(save(state), outs, parallel_tools, o)} :
            \E st \in {load(s2)} :
            \E static_status \in {IF "status" \in st.static_scan.keys
                                   THEN st.static_scan.status ELSE ABSENT} :
            \E r \in {IF static_status \in {"skipped", "failed"}
                       THEN _record_capability_skipped(st, "static_scan",
                              IF "reason" \in st.static_scan.keys
                              THEN st.static_scan.reason ELSE "slither_unavailable",
                              "slither_unavailable")
                       ELSE _record_capability_executed(st, "static_scan",
                              IF static_status = ABSENT THEN "success" ELSE static_status,
                              now, now, st.static_scan.artifact_paths)} :
            \E h \in {[hist EXCEPT !.stage = "static_scan",
                                    !.slither = slither_json.status,
                                    !.detectors = slither_json.detectors,
                                    !.sequential = StaticScanRecord(outs, FALSE, o)]} :
                 IF r.raised
                 THEN /\ store' = s2
                      /\ pc' = "raised"
                      /\ state' = EmptyState
                      /\ hist' = h
                      /\ report' = report
                 ELSE \E v \in {validate_state(r.state)} :
                      /\ hist' = [h EXCEPT !.checked = r.state, !.errors = v.errors,
                                           !.calls = @ + 1]
                      /\ IF v.errors # <<>>
                         THEN LET f == _handle_invariant_failure(v.state, v.errors)
                              IN /\ store' = save(f)
                                 /\ report' = write_report(f)
                                 /\ pc' = "done"
                                 /\ state' = EmptyState
                         ELSE /\ store' = save(r.state)
                              /\ report' = report
                              /\ pc' = "graph"
                              /\ state' = v.state
    /\ UNCHANGED <<todo, runs, pool, agent>>

\* kernel.py:114-122: the static-analysis stage when static_scan is present
StaticScanPresent ==
    /\ pc = "replay"
    /\ todo = <<>>
    /\ state.static_scan.present
    /\ LET r == _record_capability_skipped(state, "static_scan", "already_present",
                                           "state_contains_static_scan")
       IN IF r.raised
          THEN /\ pc' = "raised"
               /\ state' = EmptyState
               /\ UNCHANGED store
          ELSE /\ store' = save(r.state)
               /\ state' = load(save(r.state))
               /\ pc' = "graph"
    /\ hist' = [hist EXCEPT !.stage = "static_scan"]
    /\ UNCHANGED <<todo, report, runs, pool, agent>>

----------------------------------------------------------------------------
(* Agent methods called on their own *)

\* agent.op names the method, agent.arg is the state (or request) it is called
\* with, agent.out what it has returned once agent.pc is "returned".
NoOut == [ok |-> FALSE, reason |-> ABSENT]

\* agent.env is what else the call depends on (a verifier's answer, ...)
NoEnv == [present |-> FALSE]

AgentIdle ==
    [op |-> "none", pc |-> "idle", arg |-> EmptyState, env |-> NoEnv, out |-> NoOut]

Call(op, arg, env) == [op |-> op, pc |-> "call", arg |-> arg, env |-> env, out |-> NoOut]

KernelVars == <<store, state, pc, todo, report, runs, hist, pool>>

\* FuzzAgent.static_threshold, FuzzAgent.graph_threshold
static_threshold == 1
graph_threshold == 1

\* sum(static_signals.values())
SumSignals(signals) ==
    signals.reentrancy + signals.unchecked_return + signals.delegatecall

\* FuzzAgent.should_run
FuzzAgent_should_run(st) ==
    LET cap == st.budget.cap
        spent == IF st.budget.spent = NONE THEN 0 ELSE st.budget.spent
        static_score == IF st.static_scan.present /\ "signals" \in st.static_scan.keys
                        THEN SumSignals(st.static_scan.signals) ELSE 0
        graph_score == IF st.graph_analysis.present /\ st.graph_analysis.score # NONE
                       THEN st.graph_analysis.score ELSE 0
    IN IF cap # NONE /\ cap # 0 /\ spent >= cap
       THEN [ok |-> FALSE, reason |-> "budget_exceeded"]
       ELSE IF static_score >= static_threshold \/ graph_score >= graph_threshold
            THEN [ok |-> TRUE, reason |-> "threshold_met"]
            ELSE [ok |-> FALSE, reason |-> "threshold_not_met"]

FuzzShouldRun ==
    /\ agent.op = "FuzzAgent.should_run"
    /\ agent.pc = "call"
    /\ agent' = [agent EXCEPT !.pc = "returned", !.out = FuzzAgent_should_run(agent.arg)]
    /\ UNCHANGED KernelVars

\* scoring._normalize_level on the levels the model uses
_normalize_level(value) ==
    CASE value = "High" -> "high"
      [] value = "Medium" -> "medium"
      [] value = "Low" -> "low"
      [] OTHER -> value

\* DEFAULT_WEIGHTS.severity.get(level, 0)
_severity_weight(level) ==
    CASE _normalize_level(level) = "critical" -> 5
      [] _normalize_level(level) = "high" -> 4
      [] _normalize_level(level) = "medium" -> 2
      [] _normalize_level(level) = "low" -> 1
      [] OTHER -> 0

\* DEFAULT_WEIGHTS.confidence.get(level, 0)
_confidence_weight(level) ==
    CASE _normalize_level(level) = "high" -> 3
      [] _normalize_level(level) = "medium" -> 2
      [] _normalize_level(level) = "low" -> 1
      [] OTHER -> 0

\* bool(finding.get(key)) for a string-valued key
HasText(f, key) == key \in f.keys /\ f[key] # ""

\* finding.get("repro") or finding.get("repro_steps") or finding.get("repro_path")
HasRepro(f) == HasText(f, "repro") \/ HasText(f, "repro_steps") \/ HasText(f, "repro_path")

\* scoring._evidence_strength with the default weights (evidence 2, repro 1)
_evidence_strength(f) ==
    (IF HasText(f, "source_tool") /\ "artifact_paths" \in f.keys /\ f.artifact_paths # <<>>
     THEN 2 ELSE 0)
    + (IF HasRepro(f) THEN 1 ELSE 0)

\* one item of score_findings
ScoredItem(f) ==
    LET severity == _normalize_level(IF HasText(f, "severity") THEN f.severity
                                     ELSE FindingGet(f, "impact"))
        confidence == _normalize_level(FindingGet(f, "confidence"))
    IN [score |-> _evidence_strength(f) + _severity_weight(severity)
                  + _confidence_weight(confidence),
        severity |-> IF severity = "" THEN "unknown" ELSE severity,
        confidence |-> IF confidence = "" THEN "unknown" ELSE confidence,
        source_tool |-> IF "source_tool" \in f.keys THEN f.source_tool ELSE "unknown",
        category |-> IF "category" \in f.keys THEN f.category ELSE "unknown",
        description |-> FindingGet(f, "description"),
        finding |-> f]

\* scoring._score_sort_key
_score_sort_key(item) ==
    << 0 - item.score, 0 - _severity_weight(item.severity),
       0 - _confidence_weight(item.confidence),
       item.source_tool, item.category, item.description >>

\* tuple.__lt__ on two _score_sort_key tuples
ScoreKeyLt(a, b) ==
    \/ a[1] < b[1]
    \/ a[1] = b[1] /\ a[2] < b[2]
    \/ a[1] = b[1] /\ a[2] = b[2] /\ a[3] < b[3]
    \/ a[1] = b[1] /\ a[2] = b[2] /\ a[3] = b[3]
       /\ TupleLt(<<a[4], a[5], a[6]>>, <<b[4], b[5], b[6]>>)

\* sorted(scored, key=_score_sort_key): stable
RECURSIVE InsertScored(_, _)
InsertScored(x, done) ==
    IF done = <<>> THEN <<x>>
    ELSE IF ScoreKeyLt(_score_sort_key(x), _score_sort_key(Head(done)))
         THEN <<x>> \o done
         ELSE <<Head(done)>> \o InsertScored(x, Tail(done))

RECURSIVE SortScored(_)
SortScored(xs) ==
    IF xs = <<>> THEN <<>>
    ELSE InsertScored(xs[Len(xs)], SortScored(SubSeq(xs, 1, Len(xs) - 1)))

\* the loop of score_findings: findings that are not mappings are left out
RECURSIVE ScoreEach(_)
ScoreEach(fs) ==
    IF fs = <<>> THEN <<>>
    ELSE (IF Head(fs).kind = "dict" THEN <<ScoredItem(Head(fs))>> ELSE <<>>)
         \o ScoreEach(Tail(fs))

\* scoring.score_findings
score_findings(fs) == SortScored(ScoreEach(fs))

\* int(os.getenv("REPAIR_MIN_BUDGET", "1"))
min_budget == 1

\* RepairAgent._has_budget
_has_budget(st) ==
    LET cap == st.budget.cap
        spent == IF st.budget.spent = NONE THEN 0 ELSE st.budget.spent
    IN IF cap = NONE THEN FALSE ELSE (cap - spent) >= min_budget

\* the None that should_run returns in place of a finding
NoFinding == Finding("none", {}, "", "", "", "", "", "", "", "", <<>>)

\* A faulty should_run: the first high-confidence finding with repro steps is
\* taken, whatever its rank.
RepairAgent_should_run_any(st) ==
    LET scored == score_findings(collect_findings(st))
        good == {i \in 1..Len(scored) :
                   /\ _normalize_level(FindingGet(scored[i].finding, "confidence")) = "high"
                   /\ HasRepro(scored[i].finding)}
    IN IF scored = <<>> THEN [ok |-> FALSE, reason |-> "no_findings", finding |-> NoFinding]
       ELSE IF good = {}
            THEN [ok |-> FALSE, reason |-> "insufficient_evidence",
                  finding |-> scored[1].finding]
       ELSE IF ~_has_budget(st)
            THEN [ok |-> FALSE, reason |-> "insufficient_budget",
                  finding |-> scored[CHOOSE i \in good : \A j \in good : i <= j].finding]
       ELSE [ok |-> TRUE, reason |-> "eligible",
             finding |-> scored[CHOOSE i \in good : \A j \in good : i <= j].finding]

\* RepairAgent.should_run
RepairAgent_should_run(st) ==
    LET scored == score_findings(collect_findings(st))
        finding == scored[1].finding
        confidence == _normalize_level(FindingGet(finding, "confidence"))
    IN IF scored = <<>> THEN [ok |-> FALSE, reason |-> "no_findings", finding |-> NoFinding]
       ELSE IF confidence # "high" \/ ~HasRepro(finding)
            THEN [ok |-> FALSE, reason |-> "insufficient_evidence", finding |-> finding]
       ELSE IF ~_has_budget(st)
            THEN [ok |-> FALSE, reason |-> "insufficient_budget", finding |-> finding]
       ELSE [ok |-> TRUE, reason |-> "eligible", finding |-> finding]

RepairShouldRun ==
    /\ agent.op = "RepairAgent.should_run"
    /\ agent.pc = "call"
    /\ agent' = [agent EXCEPT !.pc = "returned", !.out = RepairAgent_should_run(agent.arg)]
    /\ UNCHANGED KernelVars

\* what a verifier returns: `resolved` is "True", "False" or ABSENT (key
\* missing), `score_after` a number or NONE, `reason` a string or ABSENT
VerifierResult(status, resolved, score_after, reason) ==
    [present |-> TRUE, status |-> status, resolved |-> resolved,
     score_after |-> score_after, reason |-> reason]

\* the stand-in used when RepairAgent.verifier is None (repair_agent.py:65)
NoVerifierResult == VerifierResult("skipped", ABSENT, NONE, "no_verifier")

\* artifacts_dir / "repairs" / "patch_1.diff"
PatchPath == "art/repairs/patch_1.diff"

\* A faulty run: a score_after equal to the score before counts as success.
RepairAgent_run_not_strict(st, verifier) ==
    LET gate == RepairAgent_should_run(st)
        finding == gate.finding
        result == IF verifier.present THEN verifier ELSE NoVerifierResult
        score_before == score_findings(collect_findings(st))
        success == \/ result.score_after # NONE /\ score_before # <<>>
                      /\ result.score_after <= score_before[1].score
                   \/ result.resolved = "True"
    IN IF ~gate.ok
       THEN [NoRepair EXCEPT !.present = TRUE, !.keys = {"status", "reason"},
                             !.status = "skipped", !.reason = gate.reason]
       ELSE [present |-> TRUE,
             keys |-> {"status", "patch_path", "source_tool", "confidence",
                       "description", "verifier_result"}
                      \cup (IF success THEN {} ELSE {"reason"}),
             status |-> IF success THEN "success" ELSE "failed",
             reason |-> IF success THEN ABSENT
                        ELSE IF result.reason = ABSENT THEN "verification_failed"
                        ELSE result.reason,
             patch_path |-> PatchPath,
             source_tool |-> IF "source_tool" \in finding.keys THEN finding.source_tool
                             ELSE "unknown",
             confidence |-> IF "confidence" \in finding.keys THEN finding.confidence
                            ELSE "unknown",
             description |-> IF "description" \in finding.keys THEN finding.description
                             ELSE "repair",
             verifier_result |-> result]

\* RepairAgent.run: the record it stores in state["repair"] and returns
RepairAgent_run(st, verifier) ==
    LET gate == RepairAgent_should_run(st)
        finding == gate.finding
        result == IF verifier.present THEN verifier ELSE NoVerifierResult
        score_before == score_findings(collect_findings(st))
        success == \/ result.score_after # NONE /\ score_before # <<>>
                      /\ result.score_after < score_before[1].score
                   \/ result.resolved = "True"
    IN IF ~gate.ok
       THEN [NoRepair EXCEPT !.present = TRUE, !.keys = {"status", "reason"},
                             !.status = "skipped", !.reason = gate.reason]
       ELSE [present |-> TRUE,
             keys |-> {"status", "patch_path", "source_tool", "confidence",
                       "description", "verifier_result"}
                      \cup (IF success THEN {} ELSE {"reason"}),
             status |-> IF success THEN "success" ELSE "failed",
             reason |-> IF success THEN ABSENT
                        ELSE IF result.reason = ABSENT THEN "verification_failed"
                        ELSE result.reason,
             patch_path |-> PatchPath,
             source_tool |-> IF "source_tool" \in finding.keys THEN finding.source_tool
                             ELSE "unknown",
             confidence |-> IF "confidence" \in finding.keys THEN finding.confidence
                            ELSE "unknown",
             description |-> IF "description" \in finding.keys THEN finding.description
                             ELSE "repair",
             verifier_result |-> result]

\* RepairAgent.run on the state file: load, decide, verify, save
RepairRun ==
    /\ agent.op = "RepairAgent.run"
    /\ agent.pc = "call"
    /\ \E rec \in {RepairAgent_run(load(store), agent.env)} :
         /\ store' = save([load(store) EXCEPT !.repair = rec])
         /\ agent' = [agent EXCEPT !.pc = "returned", !.out = rec]
    /\ UNCHANGED <<state, pc, todo, report, runs, hist, pool>>

\* a response of the enrichment service (or the first offline fixture):
\* `status` a string or ABSENT, `pattern_matches` a list, or some other JSON
\* value when is_list is FALSE
SoloditResponse(status, pattern_matches, is_list) ==
    [present |-> TRUE, status |-> status, pattern_matches |-> pattern_matches,
     is_list |-> is_list]

\* no response: _load_fixture returned None, or SoloditClient.enrich raised
NoResponse ==
    [present |-> FALSE, status |-> ABSENT, pattern_matches |-> <<>>, is_list |-> FALSE]

\* a SoloditSignalBooster: its offline_fixtures flag, whether it has a client,
\* and what the fixture directory or the endpoint answers
Booster(offline_fixtures, client, reply) ==
    [present |-> TRUE, offline_fixtures |-> offline_fixtures, client |-> client,
     reply |-> reply]

\* SoloditSignalBooster._normalize_response
_normalize_response(response) ==
    LET matches == IF response.is_list THEN response.pattern_matches ELSE <<>>
    IN [present |-> TRUE,
        keys |-> {"status", "source", "pattern_matches", "disclaimer", "artifact_paths"},
        status |-> IF matches # <<>> \/ response.status = "success"
                   THEN "success" ELSE "error",
        reason |-> ABSENT,
        source |-> "solodit",
        pattern_matches |-> matches,
        disclaimer |-> "External heuristic enrichment; not proven evidence.",
        artifact_paths |-> <<"art/solodit/solodit_request.json",
                            "art/solodit/solodit_response.json">>]

\* the dict the error returns of enrich build (solodit.py:97-102, 115-120)
SoloditError(reason) ==
    [NoSolodit EXCEPT !.present = TRUE,
                      !.keys = {"status", "reason", "pattern_matches", "source"},
                      !.status = "error", !.reason = reason, !.source = "solodit"]

\* SoloditSignalBooster.enrich
SoloditSignalBooster_enrich(st, booster) ==
    IF booster.offline_fixtures
    THEN IF ~booster.reply.present
         THEN SoloditError("offline_fixture_missing")
         ELSE _normalize_response(booster.reply)
    ELSE IF ~booster.client
         THEN [NoSolodit EXCEPT !.present = TRUE,
                                !.keys = {"status", "pattern_matches", "source"},
                                !.status = "unavailable", !.source = "solodit"]
         ELSE IF ~booster.reply.present
              THEN SoloditError("timed out")
              ELSE _normalize_response(booster.reply)

\* a call of SoloditSignalBooster.enrich
SoloditEnrich ==
    /\ agent.op = "SoloditSignalBooster.enrich"
    /\ agent.pc = "call"
    /\ agent' = [agent EXCEPT !.pc = "returned",
                              !.out = SoloditSignalBooster_enrich(agent.arg, agent.env)]
    /\ UNCHANGED KernelVars

----------------------------------------------------------------------------
(* Scorer (scoring.py) *)

\* A finding as the Scorer reads it; "" (or <<>>) for a field means the key
\* is missing.
ScoredFinding(title, description, check, category, severity, confidence, source_tool, artifact_paths, repro_steps, path, lines) ==
    [kind |-> "dict",
     keys |-> {k \in {"title", "description", "check", "category", "severity",
                      "confidence", "source_tool", "repro_steps", "path", "lines"} :
                 [title |-> title, description |-> description, check |-> check,
                  category |-> category, severity |-> severity,
                  confidence |-> confidence, source_tool |-> source_tool,
                  repro_steps |-> repro_steps, path |-> path, lines |-> lines][k] # ""}
              \cup (IF artifact_paths = <<>> THEN {} ELSE {"artifact_paths"}),
     title |-> title, description |-> description, check |-> check,
     category |-> category, severity |-> severity, impact |-> "",
     confidence |-> confidence, source_tool |-> source_tool,
     artifact_paths |-> artifact_paths, repro_steps |-> repro_steps,
     path |-> path, lines |-> lines]

\* Scorer._finding_title
_finding_title(f) ==
    IF HasText(f, "title") THEN f.title
    ELSE IF HasText(f, "description") THEN f.description
    ELSE IF HasText(f, "check") THEN f.check
    ELSE IF HasText(f, "category") THEN f.category
    ELSE "finding"

\* A faulty _finding_location that ignores the artifact paths.
_finding_location_path_only(f) ==
    IF HasText(f, "path") THEN f.path \o ":" \o FindingGet(f, "lines") ELSE ""

\* Scorer._finding_location (the findings of the model have no `line` key,
\* which the code reads when `lines` is empty)
_finding_location(f) ==
    IF HasText(f, "path") THEN f.path \o ":" \o FindingGet(f, "lines")
    ELSE IF "artifact_paths" \in f.keys /\ f.artifact_paths # <<>>
         THEN f.artifact_paths[1]
         ELSE ""

\* Scorer._heuristic_severity: the substring tests, on the categories the
\* model uses
_heuristic_severity(category) ==
    IF category \in {"reentrancy", "dangerous_call"} THEN "high"
    ELSE IF category \in {"unchecked_return"} THEN "medium"
    ELSE IF category \in {"fuzz"} THEN "medium"
    ELSE "low"

\* Scorer._artifact_paths_valid: `files` are the paths that exist under run_root
_artifact_paths_valid(artifact_paths, files) ==
    \E i \in 1..Len(artifact_paths) : artifact_paths[i] \in files

\* Scorer._evidence_strength: the points (weights evidence 2, repro 1,
\* missing_evidence_penalty 1, skipped_capability_penalty 1)
Scorer_evidence_points(f, files, skipped_any) ==
    LET has_provenance == HasText(f, "source_tool")
        artifacts_valid == _artifact_paths_valid(f.artifact_paths, files)
    IN (IF has_provenance /\ artifacts_valid THEN 2 ELSE 0)
       - (IF ~has_provenance \/ ~artifacts_valid THEN 1 ELSE 0)
       + (IF HasRepro(f) THEN 1 ELSE 0)
       - (IF skipped_any THEN 1 ELSE 0)

\* hashlib.sha256(raw).hexdigest()[:12] of the strings the model hashes, as
\* <<raw, digest>> pairs in the order sorted() puts the digests
Sha256Table ==
    << <<"reentrancy in withdraw|unknown|contracts/Example.sol:[1]", "0231623d17d5">>,
       <<"reentrancy-eth|reentrancy|art/slither.json", "037224f014dd">>,
       <<"reentrancy|reentrancy|contracts/Example.sol:", "0deddf79ffb7">>,
       <<"Reentrancy|reentrancy|contracts/Example.sol:", "11aaa1aa37c7">>,
       <<"finding|unknown|contracts/Example.sol:", "1229455c1687">>,
       <<"reentrancy in withdraw|unknown|", "127d2dba7989">>,
       <<"Reentrancy|unknown|contracts/Example.sol:[1]", "1512a53b305b">>,
       <<"reentrancy|reentrancy|contracts/Example.sol:[1]", "1c401b348ac6">>,
       <<"Reentrancy|reentrancy|art/slither.json", "1e1fa1edcea5">>,
       <<"unchecked-return|reentrancy|art/slither.json", "209dc6bd4475">>,
       <<"reentrancy in withdraw|reentrancy|art/slither.log", "2c6f54105658">>,
       <<"unchecked-return|unknown|contracts/Example.sol:[1]", "31276154f4a1">>,
       <<"reentrancy in withdraw|unchecked_return|", "3862bb6e09f3">>,
       <<"reentrancy in withdraw|lint|", "3ee24978ed49">>,
       <<"unchecked-return|unknown|art/slither.json", "411d7d4aca41">>,
       <<"reentrancy in withdraw|reentrancy|contracts/Example.sol:", "4203d57e2026">>,
       <<"reentrancy-eth|reentrancy|", "4a07aec4a2f3">>,
       <<"reentrancy-eth|unknown|contracts/Example.sol:", "4f6efcc05f90">>,
       <<"reentrancy-eth|reentrancy|contracts/Example.sol:", "58ab66083956">>,
       <<"reentrancy in withdraw|reentrancy|", "64a6cb2d8ee7">>,
       <<"finding|unknown|contracts/Example.sol:[1]", "668f66ee0b6a">>,
       <<"reentrancy in withdraw|reentrancy|contracts/Example.sol:[1]", "71f7aecd0e43">>,
       <<"finding|unknown|", "733cd1977b5a">>,
       <<"reentrancy|reentrancy|", "7b965e60262b">>,
       <<"unchecked-return|reentrancy|contracts/Example.sol:[1]", "7cb148bf7734">>,
       <<"reentrancy in withdraw|unknown|contracts/Example.sol:", "8150881b4fc0">>,
       <<"reentrancy-eth|unknown|", "86cd6f46fde3">>,
       <<"unchecked-return|unknown|", "8c3a5bd49daf">>,
       <<"finding|unknown|art/slither.json", "911a32ea664d">>,
       <<"reentrancy in withdraw|unchecked_return|art/slither.json", "9601e4e5d4d6">>,
       <<"reentrancy-eth|unknown|art/slither.json", "9a22293d1ed4">>,
       <<"unchecked-return|unknown|contracts/Example.sol:", "9ca834f977a1">>,
       <<"Reentrancy|unknown|art/slither.json", "9ea279741931">>,
       <<"reentrancy-eth|unknown|contracts/Example.sol:[1]", "a34a1303639d">>,
       <<"Reentrancy|reentrancy|", "a78351657251">>,
       <<"reentrancy in withdraw|reentrancy|art/slither.json", "ac827c9ce22c">>,
       <<"Reentrancy|unknown|contracts/Example.sol:", "ae7383dc5c1c">>,
       <<"Reentrancy|unknown|", "bd6bf01368e6">>,
       <<"a|b|c|", "ca5b0a56d0a3">>,
       <<"reentrancy-eth|reentrancy|contracts/Example.sol:[1]", "cbfed04cbb13">>,
       <<"reentrancy in withdraw|unknown|art/slither.json", "cfaa57d12dd4">>,
       <<"Reentrancy|reentrancy|contracts/Example.sol:[1]", "d1d50cf09828">>,
       <<"reentrancy|reentrancy|art/slither.json", "d7cb22668ee6">>,
       <<"unchecked-return|reentrancy|", "df6da1556aa9">>,
       <<"unchecked-return|reentrancy|contracts/Example.sol:", "e847d51da8f2">>,
       <<"reentrancy in withdraw|lint|art/slither.json", "efae523cd3ff">> >>

\* hashlib.sha256(raw.encode("utf-8")).hexdigest()[:12]
sha256_12(raw) ==
    Sha256Table[CHOOSE i \in 1..Len(Sha256Table) : Sha256Table[i][1] = raw][2]

\* str.__lt__ on two digests
DigestLt(a, b) ==
    (CHOOSE i \in 1..Len(Sha256Table) : Sha256Table[i][2] = a)
    < (CHOOSE i \in 1..Len(Sha256Table) : Sha256Table[i][2] = b)

\* Scorer.finding_id: the digest of "title|category|location"
finding_id(f) ==
    sha256_12(_finding_title(f) \o "|"
              \o (IF "category" \in f.keys THEN f.category ELSE "unknown") \o "|"
              \o _finding_location(f))

\* previous_scores: None, or a dict from finding id to an entry, kept as the
\* function from id to the entry's score_total (NONE: the entry has no
\* score_total)
NoPrevious == [present |-> FALSE, map |-> [id \in {} |-> NONE]]

\* A faulty _score_finding: an equal score counts as regressed.
_score_finding_ge(f, files, skipped_any, previous_scores) ==
    LET category == IF "category" \in f.keys THEN f.category ELSE "unknown"
        sev == _normalize_level(IF HasText(f, "severity") THEN f.severity
                                ELSE FindingGet(f, "impact"))
        severity == IF sev = "" THEN _heuristic_severity(category) ELSE sev
        conf == _normalize_level(FindingGet(f, "confidence"))
        confidence == IF conf = "" THEN "unknown" ELSE conf
        evidence_points == Scorer_evidence_points(f, files, skipped_any)
        reproducible == HasRepro(f)
        score_total == _severity_weight(severity) + _confidence_weight(confidence)
                       + evidence_points + (IF reproducible THEN 1 ELSE 0)
        id == finding_id(f)
        previous == IF id \in DOMAIN previous_scores.map
                    THEN (IF previous_scores.map[id] = NONE THEN 0
                          ELSE previous_scores.map[id])
                    ELSE NONE
    IN [finding_id |-> id, title |-> _finding_title(f), category |-> category,
        severity |-> severity, confidence |-> confidence,
        evidence_strength |-> IF evidence_points >= 3 THEN "high"
                              ELSE IF evidence_points >= 1 THEN "medium" ELSE "low",
        evidence_points |-> evidence_points, reproducible |-> reproducible,
        status |-> IF ~previous_scores.present THEN "unknown"
                   ELSE IF id \notin DOMAIN previous_scores.map THEN "new"
                   ELSE IF score_total >= previous THEN "regressed"
                   ELSE "unchanged",
        score_total |-> score_total,
        source_tool |-> IF "source_tool" \in f.keys THEN f.source_tool ELSE "unknown",
        artifact_paths |-> f.artifact_paths]

\* Scorer._score_finding
_score_finding(f, files, skipped_any, previous_scores) ==
    LET category == IF "category" \in f.keys THEN f.category ELSE "unknown"
        sev == _normalize_level(IF HasText(f, "severity") THEN f.severity
                                ELSE FindingGet(f, "impact"))
        severity == IF sev = "" THEN _heuristic_severity(category) ELSE sev
        conf == _normalize_level(FindingGet(f, "confidence"))
        confidence == IF conf = "" THEN "unknown" ELSE conf
        evidence_points == Scorer_evidence_points(f, files, skipped_any)
        reproducible == HasRepro(f)
        score_total == _severity_weight(severity) + _confidence_weight(confidence)
                       + evidence_points + (IF reproducible THEN 1 ELSE 0)
        id == finding_id(f)
        previous == IF id \in DOMAIN previous_scores.map
                    THEN (IF previous_scores.map[id] = NONE THEN 0
                          ELSE previous_scores.map[id])
                    ELSE NONE
    IN [finding_id |-> id, title |-> _finding_title(f), category |-> category,
        severity |-> severity, confidence |-> confidence,
        evidence_strength |-> IF evidence_points >= 3 THEN "high"
                              ELSE IF evidence_points >= 1 THEN "medium" ELSE "low",
        evidence_points |-> evidence_points, reproducible |-> reproducible,
        status |-> IF ~previous_scores.present THEN "unknown"
                   ELSE IF id \notin DOMAIN previous_scores.map THEN "new"
                   ELSE IF score_total > previous THEN "regressed"
                   ELSE "unchanged",
        score_total |-> score_total,
        source_tool |-> IF "source_tool" \in f.keys THEN f.source_tool ELSE "unknown",
        artifact_paths |-> f.artifact_paths]

\* a call of Scorer._score_finding
ScoreFinding ==
    /\ agent.op = "Scorer._score_finding"
    /\ agent.pc = "call"
    /\ agent' = [agent EXCEPT
                   !.pc = "returned",
                   !.out = _score_finding(agent.arg, agent.env.files,
                                          agent.env.skipped_any, agent.env.previous)]
    /\ UNCHANGED KernelVars

\* Scorer.skipped_capabilities
skipped_capabilities == {"static_scan", "graph_analysis", "fuzz_agent", "proof_agent"}

\* sorted(entries, key=lambda item: (-item["score_total"], item["finding_id"])):
\* a stable sort
SortEntries(scored) ==
    LET n == Len(scored)
        Before(i, j) ==
            \/ scored[i].score_total > scored[j].score_total
            \/ /\ scored[i].score_total = scored[j].score_total
               /\ \/ DigestLt(scored[i].finding_id, scored[j].finding_id)
                  \/ scored[i].finding_id = scored[j].finding_id /\ i < j
    IN [k \in 1..n |->
          scored[CHOOSE i \in 1..n :
                   Cardinality({j \in 1..n : Before(j, i)}) = k - 1]]

\* the payload build_scoreboard returns for the sorted entries
ScoreboardOf(capabilities, entries) ==
    [summary |-> [total_findings |-> Len(entries),
                  high_confidence |->
                      Cardinality({k \in 1..Len(entries) :
                                     entries[k].confidence = "high"})],
     capabilities |-> capabilities,
     entries |-> entries]

\* the names of the dict entries of capabilities["skipped"]: iterating a list
\* yields its entries and iterating a dict its keys (strs), and only a dict
\* entry gives a name
SkippedNames(skipped) ==
    IF skipped.shape = "list"
    THEN { skipped.items[i].name :
             i \in { j \in 1..Len(skipped.items) :
                       /\ skipped.items[j].kind = "dict"
                       /\ "name" \in skipped.items[j].keys } }
    ELSE {}

\* Scorer.build_scoreboard
build_scoreboard(st, files, previous_scores) ==
    ScoreboardOf(
        IF st.capabilities.present THEN st.capabilities
        ELSE [present |-> TRUE, executed |-> Bucket("list", <<>>),
              skipped |-> Bucket("list", <<>>)],
        SortEntries(
            [i \in 1..Len(SelectSeq(collect_findings(st), LAMBDA f : f.kind = "dict")) |->
               _score_finding(
                   SelectSeq(collect_findings(st), LAMBDA f : f.kind = "dict")[i],
                   files,
                   SkippedNames(IF st.capabilities.present THEN st.capabilities.skipped
                                ELSE Bucket("list", <<>>))
                       \cap skipped_capabilities # {},
                   previous_scores)]))

\* Scorer._format_capabilities: a str entry as it is, a dict entry as
\* "name (reason)" with "unknown" for a missing key, anything else dropped;
\* iterating a dict-shaped bucket yields its keys, which are strs.
Scorer_format_capabilities(b) ==
    IF b.shape = "map" THEN [i \in 1..Len(b.items) |-> <<b.items[i].name>>]
    ELSE IF b.shape = "list"
    THEN LET shown == SelectSeq(b.items, LAMBDA e : e.kind \in {"str", "dict"})
         IN [i \in 1..Len(shown) |->
               IF shown[i].kind = "str" THEN <<shown[i].name>>
               ELSE << IF "name" \in shown[i].keys THEN shown[i].name ELSE "unknown",
                       IF "reason" \in shown[i].keys THEN shown[i].reason
                       ELSE "unknown" >>]
    ELSE <<>>

\* Scorer.format_scoreboard_markdown: the two capability lines ("None" for an
\* empty one) and one table row per entry, numbered from 1, or the
\* "No findings" row.  _truncate leaves a title of 80 characters or fewer as
\* it is, and every title of the model is that short.
format_scoreboard_markdown(scoreboard) ==
    LET line(b) == IF Scorer_format_capabilities(b) = <<>> THEN <<"None">>
                   ELSE Scorer_format_capabilities(b)
        entries == scoreboard.entries
    IN [executed |-> line(scoreboard.capabilities.executed),
        skipped |-> line(scoreboard.capabilities.skipped),
        rows |-> IF entries = <<>>
                 THEN << <<"-", 0, "unknown", "-", "-", "low", FALSE, "-",
                           "No findings", "-">> >>
                 ELSE [k \in 1..Len(entries) |->
                         <<k, entries[k].score_total, entries[k].status,
                           entries[k].severity, entries[k].confidence,
                           entries[k].evidence_strength, entries[k].reproducible,
                           entries[k].category, entries[k].title,
                           entries[k].finding_id>>]]

\* the files run_score writes, relative to the run directory
ScoreArtifacts == {"artifacts/score/scoreboard.json", "artifacts/score/scoreboard.md"}

\* A faulty run_score: the state is saved with its findings in ranked order.
ScoreWritten_ranked(st, scoreboard, files) ==
    [json |-> scoreboard,
     md |-> format_scoreboard_markdown(scoreboard),
     files |-> files \cup ScoreArtifacts,
     store |-> save([scoreboard |->
                       [summary |-> scoreboard.summary,
                        top_finding_ids |->
                            [k \in 1..(IF Len(scoreboard.entries) < 3
                                       THEN Len(scoreboard.entries) ELSE 3) |->
                               scoreboard.entries[k].finding_id],
                        artifact_paths |-> <<"artifacts/score/scoreboard.json",
                                             "artifacts/score/scoreboard.md">>]]
                    @@ [st EXCEPT !.findings.items =
                            [k \in 1..Len(score_findings(st.findings.items)) |->
                                score_findings(st.findings.items)[k].finding]])]

\* what run_score leaves and writes once the scoreboard of the loaded state
\* st is built: the two score files, and the state saved with the key
\* "scoreboard" set (the other keys as loaded).  json and md are what the two
\* files hold.
ScoreWritten(st, scoreboard, files) ==
    [json |-> scoreboard,
     md |-> format_scoreboard_markdown(scoreboard),
     files |-> files \cup ScoreArtifacts,
     store |-> save([scoreboard |->
                       [summary |-> scoreboard.summary,
                        top_finding_ids |->
                            [k \in 1..(IF Len(scoreboard.entries) < 3
                                       THEN Len(scoreboard.entries) ELSE 3) |->
                               scoreboard.entries[k].finding_id],
                        artifact_paths |-> <<"artifacts/score/scoreboard.json",
                                             "artifacts/score/scoreboard.md">>]]
                    @@ st)]

\* A faulty run_score: once the state holds a stored scoreboard,
\* build_scoreboard is given a dict of previous scores (an empty one).
run_score_against_stored(st_store, files) ==
    ScoreWritten(load(st_store),
                 build_scoreboard(load(st_store), files,
                                  [present |-> "scoreboard" \in DOMAIN load(st_store),
                                   map |-> [id \in {} |-> NONE]]),
                 files)

\* cli.run_score on a run directory (st_store: its state.json, files: the
\* paths that exist under it)
run_score(st_store, files) ==
    ScoreWritten(load(st_store), build_scoreboard(load(st_store), files, NoPrevious),
                 files)

\* a call of cli.run_score, and a second one on the run directory the first
\* has left
RunScore ==
    /\ agent.op = "run_score"
    /\ agent.pc \in {"call", "again"}
    /\ \E r \in {run_score(store, agent.env.files)} :
         /\ store' = r.store
         /\ agent' = [agent EXCEPT
                        !.pc = IF agent.pc = "call" THEN "again" ELSE "returned",
                        !.env = [agent.env EXCEPT !.files = r.files],
                        !.out = IF agent.pc = "call"
                                THEN [first |-> [json |-> r.json, md |-> r.md]]
                                ELSE [first |-> agent.out.first,
                                      second |-> [json |-> r.json, md |-> r.md]]]
    /\ UNCHANGED <<state, pc, todo, report, runs, hist, pool>>

\* Scorer.finding_id called on two findings
FindingIds ==
    /\ agent.op = "Scorer.finding_id"
    /\ agent.pc = "call"
    /\ agent' = [agent EXCEPT
                   !.pc = "returned",
                   !.out = [ids |-> <<finding_id(agent.arg[1]), finding_id(agent.arg[2])>>]]
    /\ UNCHANGED KernelVars

\* {entry["finding_id"] for entry in entries}
EntryIds(entries) == {entries[k].finding_id : k \in 1..Len(entries)}

\* {entry["finding_id"]: entry for entry in entries}: the last entry of an id
ScoresById(entries) ==
    [present |-> TRUE,
     map |-> [id \in EntryIds(entries) |->
                entries[CHOOSE k \in 1..Len(entries) :
                          /\ entries[k].finding_id = id
                          /\ \A j \in (k + 1)..Len(entries) : entries[j].finding_id # id
                       ].score_total]]

\* the "summary" of a run's trend entry
TrendSummary(entries, previous_ids) ==
    [new |-> Cardinality(EntryIds(entries) \ previous_ids),
     resolved |-> Cardinality(previous_ids \ EntryIds(entries)),
     regressed |-> Cardinality({k \in 1..Len(entries) : entries[k].status = "regressed"})]

\* one pass of the loop of run_trend over a run directory that has a
\* state.json, and the passes over the rest
RECURSIVE run_trend(_, _, _)
TrendStep(entries, rest, previous_ids) ==
    <<TrendSummary(entries, previous_ids)>>
    \o run_trend(rest, ScoresById(entries), EntryIds(entries))

RECURSIVE run_trend_first_ids(_, _, _)
TrendStepFirstIds(entries, rest, previous_ids) ==
    <<TrendSummary(entries, previous_ids)>>
    \o run_trend_first_ids(rest, ScoresById(entries), previous_ids)

\* A faulty run_trend that never replaces previous_ids.
run_trend_first_ids(run_dirs, previous_scores, previous_ids) ==
    IF run_dirs = <<>> THEN <<>>
    ELSE IF ~Head(run_dirs).store.exists
    THEN run_trend_first_ids(Tail(run_dirs), previous_scores, previous_ids)
    ELSE TrendStepFirstIds(build_scoreboard(load(Head(run_dirs).store),
                                            Head(run_dirs).files, previous_scores).entries,
                           Tail(run_dirs), previous_ids)

\* cli.run_trend: the loop over the sorted run directories (store: the run's
\* state.json, files: what exists under the run directory), giving the
\* "summary" of each trend entry.
run_trend(run_dirs, previous_scores, previous_ids) ==
    IF run_dirs = <<>> THEN <<>>
    ELSE IF ~Head(run_dirs).store.exists
    THEN run_trend(Tail(run_dirs), previous_scores, previous_ids)
    ELSE TrendStep(build_scoreboard(load(Head(run_dirs).store),
                                    Head(run_dirs).files, previous_scores).entries,
                   Tail(run_dirs), previous_ids)

\* a call of cli.run_trend
RunTrend ==
    /\ agent.op = "run_trend"
    /\ agent.pc = "call"
    /\ agent' = [agent EXCEPT
                   !.pc = "returned",
                   !.out = [runs |-> run_trend(agent.arg,
                                               [present |-> TRUE,
                                                map |-> [id \in {} |-> NONE]], {})]]
    /\ UNCHANGED KernelVars

\* a call of Scorer.build_scoreboard
BuildScoreboard ==
    /\ agent.op = "Scorer.build_scoreboard"
    /\ agent.pc = "call"
    /\ agent' = [agent EXCEPT
                   !.pc = "returned",
                   !.out = build_scoreboard(agent.arg, agent.env.files,
                                            agent.env.previous)]
    /\ UNCHANGED KernelVars

\* a call of scoring.score_findings
ScoreFindings ==
    /\ agent.op = "score_findings"
    /\ agent.pc = "call"
    /\ agent' = [agent EXCEPT !.pc = "returned",
                              !.out = [scored |-> score_findings(agent.arg)]]
    /\ UNCHANGED KernelVars

\* A caller of one StateStore: agent.arg lists the calls it still makes.
\* agent.out keeps what the last call returned or did: `last` and `prev` are
\* the methods of the last two calls, `before` the file before the last call,
\* `loaded` what the last load returned, `saved` the payload of the most
\* recent save.
StoreReturn(method, loaded, saved) ==
    [agent EXCEPT
       !.pc = IF Len(agent.arg) = 1 THEN "returned" ELSE "call",
       !.arg = Tail(agent.arg),
       !.out = [last |-> method, prev |-> agent.out.last, before |-> store,
                loaded |-> loaded, saved |-> saved]]

\* a call of StateStore.ensure_state_file
StoreEnsure ==
    /\ agent.op = "StateStore"
    /\ agent.pc = "call"
    /\ Head(agent.arg).method = "ensure_state_file"
    /\ store' = ensure_state_file(store)
    /\ agent' = StoreReturn("ensure_state_file", agent.out.loaded, agent.out.saved)
    /\ UNCHANGED <<state, pc, todo, report, runs, hist, pool>>

\* a call of StateStore.save
StoreSave ==
    /\ agent.op = "StateStore"
    /\ agent.pc = "call"
    /\ Head(agent.arg).method = "save"
    /\ store' = save(Head(agent.arg).payload)
    /\ agent' = StoreReturn("save", agent.out.loaded,
                            [present |-> TRUE, payload |-> Head(agent.arg).payload])
    /\ UNCHANGED <<state, pc, todo, report, runs, hist, pool>>

\* a call of StateStore.load
StoreLoad ==
    /\ agent.op = "StateStore"
    /\ agent.pc = "call"
    /\ Head(agent.arg).method = "load"
    /\ agent' = StoreReturn("load", load(store), agent.out.saved)
    /\ UNCHANGED KernelVars

\* validate_state called on a state, and called again on the state the first
\* call has left (the checks mutate the dict they are given)
ValidateState ==
    /\ agent.op = "validate_state"
    /\ agent.pc \in {"call", "again"}
    /\ agent' = [agent EXCEPT
                   !.pc = IF agent.pc = "call" THEN "again" ELSE "returned",
                   !.out = IF agent.pc = "call"
                           THEN [first |-> validate_state(agent.arg)]
                           ELSE [first |-> agent.out.first,
                                 second |-> validate_state(agent.out.first.state)]]
    /\ UNCHANGED KernelVars

\* A caller of the two recorders on one state dict: agent.arg lists the calls
\* it still makes, agent.out.state is the dict, agent.out.n counts the calls
\* made (the clock the timestamps are read from).  A call that raises ends
\* the sequence.
RecordReturn(r) ==
    [agent EXCEPT
       !.pc = IF r.raised THEN "raised"
              ELSE IF Len(agent.arg) = 1 THEN "returned" ELSE "call",
       !.arg = Tail(agent.arg),
       !.out = [state |-> r.state, raised |-> r.raised, n |-> agent.out.n + 1]]

\* a call of Kernel._record_capability_executed
RecordExecuted ==
    /\ agent.op = "Kernel._record_capability"
    /\ agent.pc = "call"
    /\ Head(agent.arg).method = "executed"
    /\ agent' = RecordReturn(_record_capability_executed(
                                 agent.out.state, Head(agent.arg).name,
                                 Head(agent.arg).label, agent.out.n, agent.out.n,
                                 <<>>))
    /\ UNCHANGED KernelVars

\* a call of Kernel._record_capability_skipped
RecordSkipped ==
    /\ agent.op = "Kernel._record_capability"
    /\ agent.pc = "call"
    /\ Head(agent.arg).method = "skipped"
    /\ agent' = RecordReturn(_record_capability_skipped(
                                 agent.out.state, Head(agent.arg).name,
                                 Head(agent.arg).label, Head(agent.arg).evidence))
    /\ UNCHANGED KernelVars

----------------------------------------------------------------------------
(* GraphAnalysis: the fallback graph (agents/graph_analysis.py) *)

\* The fallback graph is a dict from node to the set of its successors.
\* graph.keys lists the nodes in dict order, graph.succ[n] is the set of n,
\* and graph.iter is the order in which iterating a set yields the nodes.
FallbackGraph(keys, succ, iter) == [keys |-> keys, succ |-> succ, iter |-> iter]

\* for neighbor in graph.get(node, set())
Neighbors(graph, node) == SelectSeq(graph.iter, LAMBDA m : m \in graph.succ[node])

\* stack.index(neighbor)
StackIndex(stack, node) ==
    CHOOSE i \in 1..Len(stack) : stack[i] = node /\ \A j \in 1..(i - 1) : stack[j] # node

\* visit(node, stack) of _fallback_cycles and its loop over the neighbors;
\* acc holds color (0 white, 1 gray, 2 black) and the cycles found so far.
\* stack is the list before node is appended; the call pops what it pushes.
RECURSIVE visit(_, _, _, _)
RECURSIVE VisitNeighbors(_, _, _, _)
VisitNeighbors(graph, nbrs, stack, acc) ==
    IF nbrs = <<>> THEN acc
    ELSE VisitNeighbors(graph, Tail(nbrs), stack,
            IF acc.color[Head(nbrs)] = 0
            THEN visit(graph, Head(nbrs), stack, acc)
            ELSE IF acc.color[Head(nbrs)] = 1
            THEN [acc EXCEPT !.cycles =
                    Append(@, SubSeq(stack, StackIndex(stack, Head(nbrs)), Len(stack))
                              \o <<Head(nbrs)>>)]
            ELSE acc)

visit(graph, node, stack, acc) ==
    [VisitNeighbors(graph, Neighbors(graph, node), stack \o <<node>>,
                    [acc EXCEPT !.color[node] = 1])
       EXCEPT !.color[node] = 2]

\* for node in graph: if color[node] == WHITE: visit(node, [])
RECURSIVE VisitRoots(_, _, _)
VisitRoots(graph, roots, acc) ==
    IF roots = <<>> THEN acc
    ELSE VisitRoots(graph, Tail(roots),
                    IF acc.color[Head(roots)] = 0
                    THEN visit(graph, Head(roots), <<>>, acc) ELSE acc)

\* A faulty _fallback_cycles: the search starts from the first node only.
_fallback_cycles_first_root(graph) ==
    VisitRoots(graph, SubSeq(graph.keys, 1, 1),
               [color |-> [n \in Range(graph.keys) |-> 0], cycles |-> <<>>]).cycles

\* GraphAnalysis._fallback_cycles
_fallback_cycles(graph) ==
    VisitRoots(graph, graph.keys,
               [color |-> [n \in Range(graph.keys) |-> 0], cycles |-> <<>>]).cycles

\* a call of GraphAnalysis._fallback_cycles
FallbackCycles ==
    /\ agent.op = "GraphAnalysis._fallback_cycles"
    /\ agent.pc = "call"
    /\ agent' = [agent EXCEPT !.pc = "returned",
                              !.out = [cycles |-> _fallback_cycles(agent.arg)]]
    /\ UNCHANGED KernelVars

----------------------------------------------------------------------------
(* RunnerPool.run as a process (tools/runner_pool.py:34-48) *)

\* pool.outs[i] is what job i's runner returns; pool.completed lists the
\* jobs in the order as_completed() has yielded them.
PoolIdle ==
    [pc |-> "idle", parallel |-> FALSE, outs |-> <<>>, completed |-> <<>>,
     results |-> <<>>, findings |-> <<>>, artifacts |-> <<>>]

\* the pool's outputs once `appended` holds every job's result
PoolDone(p, appended) ==
    LET results == RunnerPool_run(appended)
    IN [p EXCEPT !.pc = "done", !.results = results,
                 !.findings = merge_findings(results),
                 !.artifacts = merge_artifacts(results)]

\* runner_pool.py:37-39: not parallel, or at most one job
PoolRunSequential ==
    /\ pool.pc = "running"
    /\ ~pool.parallel \/ Len(pool.outs) <= 1
    /\ pool' = PoolDone(pool, pool.outs)
    /\ UNCHANGED <<store, state, pc, todo, report, runs, hist, agent>>

\* runner_pool.py:42-46: a submitted job completes and is appended
PoolJobCompletes ==
    /\ pool.pc = "running"
    /\ pool.parallel /\ Len(pool.outs) > 1
    /\ \E i \in (1..Len(pool.outs)) \ Range(pool.completed) :
         pool' = [pool EXCEPT !.completed = Append(@, i)]
    /\ UNCHANGED <<store, state, pc, todo, report, runs, hist, agent>>

\* runner_pool.py:48: every future has been yielded
PoolGather ==
    /\ pool.pc = "running"
    /\ pool.parallel /\ Len(pool.outs) > 1
    /\ Len(pool.completed) = Len(pool.outs)
    /\ pool' = PoolDone(pool, [k \in 1..Len(pool.outs) |-> pool.outs[pool.completed[k]]])
    /\ UNCHANGED <<store, state, pc, todo, report, runs, hist, agent>>

----------------------------------------------------------------------------
(* Initial states *)

GoodFinding ==
    Finding("dict", {"category", "description", "source_tool", "artifact_paths", "confidence"},
            "slither", "reentrancy", "", "x", "", "", "", "high", <<"art/slither.json">>)

\* {"id": "f1"}-like: a mapping without the confidence key
NoConfidenceFinding == [GoodFinding EXCEPT !.keys = @ \ {"confidence"}, !.confidence = ""]

\* a finding that is not a mapping
OtherFinding == [GoodFinding EXCEPT !.kind = "other", !.keys = {}]

InitFindings ==
    { [present |-> FALSE, items |-> <<>>] }
    \cup { [present |-> TRUE, items |-> <<f>>] :
             f \in {GoodFinding, NoConfidenceFinding, OtherFinding} }

GoodEntry ==
    Entry("dict", {"name", "reason"}, "x", "y", ABSENT, ABSENT, NONE, NONE, <<>>)

NoReasonEntry == [GoodEntry EXCEPT !.keys = {"name"}, !.reason = ABSENT]

ListCapabilities(executed, skipped) ==
    [present |-> TRUE, executed |-> Bucket("list", executed),
     skipped |-> Bucket("list", skipped)]

InitCapabilities ==
    { NoCapabilities, DefaultCapabilities,
      ListCapabilities(<<>>, <<>>),
      ListCapabilities(<<>>, <<GoodEntry>>),
      ListCapabilities(<<>>, <<NoReasonEntry>>),
      [present |-> TRUE, executed |-> Bucket("list", <<>>),
       skipped |-> Bucket(ABSENT, <<>>)] }

InitBudgets ==
    { NoBudget }
    \cup { [present |-> TRUE, spent |-> s, cap |-> c, last_spent |-> l] :
             s \in 0..MaxSpent, c \in {NONE, 0}, l \in {NONE, MaxSpent} }

\* <<escalation_level, escalation_previous, escalation_reason>>
InitEscalations ==
    { <<NONE, NONE, FALSE>>, <<0, NONE, FALSE>>, <<MaxEscalation, NONE, FALSE>>,
      <<1, MaxEscalation, FALSE>>, <<1, MaxEscalation, TRUE>> }

InitStaticScans ==
    { NoStaticScan, [NoStaticScan EXCEPT !.present = TRUE, !.keys = {"signals"}] }

Payload(status, capabilities, budget, esc, findings, static_scan, agent_queue) ==
    [EmptyState EXCEPT !.status = status, !.capabilities = capabilities,
                       !.budget = budget, !.escalation_level = esc[1],
                       !.escalation_previous = esc[2], !.escalation_reason = esc[3],
                       !.findings = findings, !.static_scan = static_scan,
                       !.agent_queue = agent_queue]

\* The state files a run can be started on (a record saved earlier).  Two
\* families: every combination of the fields validate_state reads, and every
\* combination of the fields that steer Kernel.run.
InitPayloads ==
    { Payload(ABSENT, capabilities, budget, esc, findings, NoStaticScan, <<>>) :
        capabilities \in InitCapabilities, budget \in InitBudgets,
        esc \in InitEscalations, findings \in InitFindings }
    \cup
    { [Payload(status, capabilities, budget, esc, findings, static_scan, agent_queue)
         EXCEPT !.graph_analysis = graph_analysis] :
        graph_analysis \in {NoGraphAnalysis, [present |-> TRUE, score |-> 0]},
        status \in {ABSENT, "initialized", "completed"},
        capabilities \in {DefaultCapabilities, ListCapabilities(<<>>, <<>>)},
        budget \in {NoBudget,
                    [present |-> TRUE, spent |-> 0, cap |-> MaxSpent, last_spent |-> MaxSpent]},
        esc \in {<<NONE, NONE, FALSE>>, <<MaxEscalation, NONE, FALSE>>},
        findings \in {[present |-> FALSE, items |-> <<>>],
                      [present |-> TRUE, items |-> <<GoodFinding>>]},
        static_scan \in InitStaticScans, agent_queue \in {<<>>, <<"x">>} }

Init ==
    /\ store \in {NoFile} \cup {save(p) : p \in InitPayloads}
    /\ state = EmptyState
    /\ pc = "idle"
    /\ todo = <<>>
    /\ report = NoReport
    /\ runs = 0
    /\ hist = HistInit
    /\ pool = PoolIdle
    /\ agent = AgentIdle

Next ==
    RunStart \/ InitialValidate \/ ReplayAgent \/ StaticScanStage \/ StaticScanPresent

Spec == Init /\ [][Next]_vars

----------------------------------------------------------------------------
(* RunnerPool on its own: any list of jobs, any completion order *)

KeyedFinding(lines, art) ==
    Finding("dict", {"category", "check", "path", "lines", "source_tool", "artifact_paths",
                     "confidence"},
            "x", "lint", "todo_comment", "", "contracts/Example.sol", lines, "",
            "heuristic", <<art>>)

\* what a job's runner can return; two jobs may share a name, and findings
\* of different jobs may tie on the sort key
JobOutputs ==
    { ToolResult(name, <<art>>,
                 IF lines = "" THEN <<>> ELSE <<KeyedFinding(lines, art)>>,
                 [detectors |-> <<>>]) :
        name \in {"x", "y"}, art \in {"a/quick_lint.log", "b/quick_lint.log"},
        lines \in {"", "[1]"} }

InitPool ==
    /\ store = NoFile
    /\ state = EmptyState
    /\ pc = "idle"
    /\ todo = <<>>
    /\ report = NoReport
    /\ runs = 0
    /\ hist = HistInit
    /\ agent = AgentIdle
    /\ \E parallel \in BOOLEAN, outs \in SeqsUpTo(JobOutputs, MaxJobs) :
         pool = [PoolIdle EXCEPT !.pc = "running", !.parallel = parallel, !.outs = outs]

NextPool == PoolRunSequential \/ PoolJobCompletes \/ PoolGather

SpecPool == InitPool /\ [][NextPool]_vars

----------------------------------------------------------------------------
(* The agent methods on their own: any state they can be handed *)

\* budgets with cap and spent each missing or in 0..MaxSpent
AgentBudgets ==
    { [present |-> TRUE, spent |-> s, cap |-> c, last_spent |-> NONE] :
        s \in {NONE} \cup 0..MaxSpent, c \in {NONE} \cup 0..MaxSpent }

SignalsScan(signals) ==
    [NoStaticScan EXCEPT !.present = TRUE, !.keys = {"signals"}, !.signals = signals]

FuzzStates ==
    { [EmptyState EXCEPT !.budget = b, !.static_scan = sc, !.graph_analysis = g] :
        b \in AgentBudgets \cup {NoBudget},
        sc \in {NoStaticScan, SignalsScan(ZeroSignals),
                SignalsScan([ZeroSignals EXCEPT !.reentrancy = 1])},
        g \in {NoGraphAnalysis} \cup {[present |-> TRUE, score |-> n] : n \in 0..1} }

\* findings for the repair gate: `repro_steps` and `severity` are keys only
\* these have
RepairFinding(confidence, repro_steps, impact, description) ==
    [kind |-> "dict",
     keys |-> {"category", "description", "source_tool", "artifact_paths", "confidence"}
              \cup (IF repro_steps = "" THEN {} ELSE {"repro_steps"})
              \cup (IF impact = "" THEN {} ELSE {"impact"}),
     source_tool |-> "slither", category |-> "reentrancy", check |-> "",
     description |-> description, path |-> "", lines |-> "", impact |-> impact,
     confidence |-> confidence, artifact_paths |-> <<"art/slither.json">>,
     repro_steps |-> repro_steps]

RepairFindings ==
    { RepairFinding("high", "steps", "", "x"),
      RepairFinding("medium", "steps", "", "y"),
      RepairFinding("high", "", "High", "z"),
      RepairFinding("High", "steps", "", "y") }

MaxFindings == 2

RepairStates ==
    { [EmptyState EXCEPT !.budget = b, !.findings = [present |-> TRUE, items |-> fs]] :
        b \in AgentBudgets, fs \in SeqsUpTo(RepairFindings, MaxFindings) }

\* the verifiers handed to RepairAgent: none, or one whose score_after is
\* missing, below, or equal to the score of the eligible findings
Verifiers ==
    { NoEnv }
    \cup { VerifierResult("ok", resolved, score_after, reason) :
             resolved \in {ABSENT, "True", "False"}, score_after \in {NONE, 5, 6},
             reason \in {ABSENT, "still_failing"} }

\* the boosters enrich is called on: with and without fixtures and client,
\* answered by nothing or by a response of every shape
Boosters ==
    { Booster(offline_fixtures, client, reply) :
        offline_fixtures \in BOOLEAN, client \in BOOLEAN,
        reply \in { NoResponse }
                  \cup { SoloditResponse(status, pattern_matches, is_list) :
                           status \in {ABSENT, "success", "error"},
                           pattern_matches \in {<<>>, <<"reentrancy">>},
                           is_list \in BOOLEAN } }

\* the calls of Scorer._score_finding: one finding with every combination of
\* category, severity, confidence, provenance and repro field; the artifact
\* file present or not; a relevant stage skipped or not; no previous scores,
\* an empty map, or a map holding this finding's id
ScoreFindingCalls ==
    { Call("Scorer._score_finding",
           ScoredFinding("", "reentrancy in withdraw", "", category, severity,
                         confidence, source_tool, artifact_paths, repro_steps, "", ""),
           [present |-> TRUE, files |-> files, skipped_any |-> skipped_any,
            previous |-> IF prev = "none" THEN NoPrevious
                         ELSE [present |-> TRUE,
                               map |-> IF prev = "empty" THEN [id \in {} |-> NONE]
                                       ELSE [id \in {sha256_12(
                                                 "reentrancy in withdraw|" \o category \o "|"
                                                 \o (IF artifact_paths = <<>> THEN ""
                                                     ELSE artifact_paths[1]))}
                                             |-> prev_score]]]) :
        category \in {"reentrancy", "unchecked_return", "lint"},
        severity \in {"", "critical", "high", "medium", "low", "unknown"},
        confidence \in {"", "high", "medium", "low"},
        source_tool \in {"", "slither"},
        artifact_paths \in {<<>>, <<"art/slither.json">>},
        repro_steps \in {"", "steps"},
        files \in {{}, {"art/slither.json"}},
        skipped_any \in BOOLEAN,
        prev \in {"none", "empty", "held"},
        prev_score \in {NONE, 3, 6} }

MaxScored == 2

\* findings that tie: the second has the first's id and score_total with
\* other levels, the third its _score_sort_key with another artifact, the
\* fourth a repro field
RankedFindings ==
    { ScoredFinding("", "reentrancy in withdraw", "", "reentrancy", "high", "low",
                    "slither", <<"art/slither.json">>, "", "", ""),
      ScoredFinding("", "reentrancy in withdraw", "", "reentrancy", "medium", "high",
                    "slither", <<"art/slither.json">>, "", "", ""),
      ScoredFinding("", "reentrancy in withdraw", "", "reentrancy", "high", "low",
                    "slither", <<"art/slither.log">>, "", "", ""),
      ScoredFinding("", "reentrancy in withdraw", "", "reentrancy", "high", "low",
                    "slither", <<"art/slither.json">>, "steps", "", "") }

\* a ledger with the stage `name` skipped, in the list-of-entries shape and
\* in the map shape the Kernel writes
SkippedLedger(shape, name) ==
    [present |-> TRUE, executed |-> Bucket(shape, <<>>),
     skipped |-> Bucket(shape,
        <<IF shape = "list"
          THEN Entry("dict", {"name", "reason"}, name, "slither_unavailable", ABSENT,
                     ABSENT, NONE, NONE, <<>>)
          ELSE Entry("dict", {"reason", "evidence"}, name, "slither_unavailable",
                     "slither_unavailable", ABSENT, NONE, NONE, <<>>)>>)]

\* the states build_scoreboard is called on
ScoreboardCalls ==
    { Call("Scorer.build_scoreboard",
           [EmptyState EXCEPT !.findings = [present |-> TRUE, items |-> fs],
                              !.capabilities = capabilities],
           [present |-> TRUE, files |-> files, previous |-> NoPrevious]) :
        fs \in SeqsUpTo(RankedFindings, MaxScored),
        capabilities \in {NoCapabilities, DefaultCapabilities,
                          ListCapabilities(<<>>, <<>>)}
                         \cup {SkippedLedger(shape, name) :
                                 shape \in {"list", "map"},
                                 name \in {"static_scan", "llm_synthesis"}},
        files \in {{}, {"art/slither.json"}, {"art/slither.json", "art/slither.log"}} }

\* the findings finding_id is compared on: with and without title,
\* description, check and category; located by path and lines, by path alone,
\* by an artifact, or not at all; and two whose fields contain the separator
IdFindings ==
    { ScoredFinding(title, description, check, category, "", "", "",
                    location[3], "", location[1], location[2]) :
        title \in {"", "Reentrancy"},
        description \in {"", "reentrancy in withdraw"},
        check \in {"", "reentrancy-eth", "unchecked-return"},
        category \in {"", "reentrancy"},
        location \in { <<"", "", <<>>>>,
                       <<"contracts/Example.sol", "[1]", <<>>>>,
                       <<"contracts/Example.sol", "", <<>>>>,
                       <<"", "", <<"art/slither.json">>>> } }
    \cup { ScoredFinding("a|b", "", "", "c", "", "", "", <<>>, "", "", ""),
           ScoredFinding("a", "", "", "b|c", "", "", "", <<>>, "", "", "") }

MaxTrendRuns == 3

\* the run directories under runs_root: without a state.json, or with one
\* holding findings of distinct ids (the first and the fourth of
\* RankedFindings are one finding, scored lower and higher)
RunDirs ==
    { [store |-> NoFile, files |-> {}] }
    \cup { [store |-> save([EmptyState EXCEPT
                              !.findings = [present |-> TRUE, items |-> fs]]),
            files |-> {"art/slither.json", "art/slither.log"}] :
             fs \in { xs \in SeqsUpTo(RankedFindings, MaxScored) :
                        \A i, j \in 1..Len(xs) :
                            i # j => finding_id(xs[i]) # finding_id(xs[j]) } }

\* the record StaticScan.run stores under "static_scan", with the findings fs
ScannedFindings(fs) ==
    [NoStaticScan EXCEPT
        !.present = TRUE,
        !.keys = {"signals", "evidence", "findings", "artifacts", "artifact_paths"},
        !.findings = fs]

\* the run directories run_score is called on: without a state.json, or with
\* one holding findings and a ledger, or findings and the record of a static
\* scan; the tool artifacts the findings name exist or do not, and the score
\* files exist when the run was scored before
ScoreRuns ==
    { [store |-> NoFile, files |-> {}] }
    \cup { [store |-> save([EmptyState EXCEPT
                              !.findings = [present |-> TRUE, items |-> fs],
                              !.capabilities = capabilities]),
            files |-> files] :
             fs \in SeqsUpTo(RankedFindings, MaxScored),
             capabilities \in {NoCapabilities, DefaultCapabilities,
                               SkippedLedger("list", "static_scan"),
                               SkippedLedger("map", "static_scan")},
             files \in {{}, {"art/slither.json", "art/slither.log"},
                        {"art/slither.json"} \cup ScoreArtifacts} }
    \cup { [store |-> save([EmptyState EXCEPT
                              !.findings = [present |-> TRUE, items |-> fs],
                              !.capabilities = DefaultCapabilities,
                              !.static_scan = ScannedFindings(<<f>>)]),
            files |-> {"art/slither.json", "art/slither.log"}] :
             fs \in SeqsUpTo(RankedFindings, MaxScored), f \in RankedFindings }

\* the states validate_state is called on: every combination of a budget
\* (spent below or above its baseline and its cap), an escalation level
\* (below or at its baseline, with and without a reason), findings with and
\* without provenance, and a ledger that is missing, partial, list-shaped or
\* map-shaped
ValidateStates ==
    { [Payload("running", capabilities, budget, esc, findings, static_scan, <<>>)
         EXCEPT !.target_path = "target"] :
        capabilities \in {NoCapabilities, DefaultCapabilities,
                          ListCapabilities(<<>>, <<GoodEntry>>),
                          [present |-> TRUE, executed |-> Bucket("list", <<>>),
                           skipped |-> Bucket(ABSENT, <<>>)]},
        budget \in {NoBudget}
                   \cup {[present |-> TRUE, spent |-> sp, cap |-> c, last_spent |-> l] :
                           sp \in {NONE, 1}, c \in {NONE, 0, 1}, l \in {NONE, 0, 2}},
        esc \in {<<level, previous, reason>> :
                   level \in {NONE, 0, 1}, previous \in {NONE, 1}, reason \in BOOLEAN},
        findings \in {[present |-> FALSE, items |-> <<>>],
                      [present |-> TRUE, items |-> <<GoodFinding>>],
                      [present |-> TRUE, items |-> <<GoodFinding, NoConfidenceFinding>>]},
        static_scan \in {NoStaticScan,
                         [NoStaticScan EXCEPT !.present = TRUE,
                                              !.keys = {"signals", "findings"},
                                              !.findings = <<GoodFinding>>]} }

MaxStoreCalls == 3

\* the payloads a caller saves
StorePayloads ==
    { [EmptyState EXCEPT !.status = "running"],
      [EmptyState EXCEPT !.status = "completed",
                         !.findings = [present |-> TRUE, items |-> <<GoodFinding>>]] }

\* the calls on a StateStore whose file is missing, or holds the minimal
\* record or a saved payload
StoreCalls ==
    { [Call("StateStore", calls, [present |-> TRUE, initial |-> st])
         EXCEPT !.out = [last |-> ABSENT, prev |-> ABSENT, before |-> st,
                         loaded |-> EmptyState,
                         saved |-> [present |-> FALSE, payload |-> EmptyState]]] :
        calls \in SeqsUpTo({[method |-> "ensure_state_file", payload |-> EmptyState],
                            [method |-> "load", payload |-> EmptyState]}
                           \cup {[method |-> "save", payload |-> p] : p \in StorePayloads},
                           MaxStoreCalls) \ {<<>>},
        st \in {NoFile, ensure_state_file(NoFile)} \cup {save(p) : p \in StorePayloads} }

MaxRecords == 3

\* the recorder calls Kernel.run makes up to the static stage: a queued agent
\* (kernel.py:65-72), static_scan skipped or executed after the scan
\* (kernel.py:93-107), static_scan skipped as already present
\* (kernel.py:112-117)
RecordCall(method, name, label, evidence) ==
    [method |-> method, name |-> name, label |-> label, evidence |-> evidence]

RecorderCalls ==
    { RecordCall("executed", n, "queued", ABSENT) : n \in {"static_scan", "replay"} }
    \cup { RecordCall("executed", "static_scan", "success", ABSENT),
           RecordCall("skipped", "static_scan", "slither_unavailable",
                      "slither_unavailable"),
           RecordCall("skipped", "static_scan", "already_present",
                      "state_contains_static_scan") }

\* sequences of recorder calls on a state dict without a ledger, with the
\* Kernel's empty map ledger or with a list ledger
RecordCalls ==
    { [Call("Kernel._record_capability", calls, NoEnv)
         EXCEPT !.out = [state |-> [EmptyState EXCEPT !.capabilities = c],
                         raised |-> FALSE, n |-> 0]] :
        calls \in SeqsUpTo(RecorderCalls, MaxRecords) \ {<<>>},
        c \in {NoCapabilities, DefaultCapabilities, ListCapabilities(<<>>, <<>>)} }

InitAgents ==
    /\ state = EmptyState
    /\ pc = "idle"
    /\ todo = <<>>
    /\ report = NoReport
    /\ runs = 0
    /\ hist = HistInit
    /\ pool = PoolIdle
    /\ agent \in {Call("FuzzAgent.should_run", st, NoEnv) : st \in FuzzStates}
                \cup {Call("RepairAgent.should_run", st, NoEnv) : st \in RepairStates}
                \cup {Call("RepairAgent.run", st, v) : st \in RepairStates, v \in Verifiers}
                \cup {Call("SoloditSignalBooster.enrich", st, b) :
                        st \in {EmptyState, [EmptyState EXCEPT !.escalation_level = 2]},
                        b \in Boosters}
                \cup ScoreFindingCalls
                \cup ScoreboardCalls
                \cup {Call("run_trend", rs, NoEnv) : rs \in SeqsUpTo(RunDirs, MaxTrendRuns)}
                \cup {Call("Scorer.finding_id", <<f, g>>, NoEnv) :
                        f \in IdFindings, g \in IdFindings}
                \cup {Call("score_findings", fs, NoEnv) :
                        fs \in SeqsUpTo(RankedFindings, MaxScored)}
                \cup {Call("run_score", d.store, [present |-> TRUE, files |-> d.files]) :
                        d \in ScoreRuns}
                \cup StoreCalls
                \cup {Call("validate_state", st, NoEnv) : st \in ValidateStates}
                \cup RecordCalls
    /\ store = IF agent.op = "RepairAgent.run" THEN save(agent.arg)
               ELSE IF agent.op = "run_score" THEN agent.arg
               ELSE IF agent.op = "StateStore" THEN agent.env.initial
               ELSE NoFile

NextAgents == FuzzShouldRun \/ RepairShouldRun \/ RepairRun \/ SoloditEnrich
              \/ ScoreFinding \/ BuildScoreboard \/ ScoreFindings
              \/ FindingIds \/ RunTrend \/ RunScore
              \/ StoreEnsure \/ StoreSave \/ StoreLoad \/ ValidateState
              \/ RecordExecuted \/ RecordSkipped
              \/ RecordExecuted \/ RecordSkipped

SpecAgents == InitAgents /\ [][NextAgents]_vars

----------------------------------------------------------------------------
(* GraphAnalysis._fallback_cycles on its own: any graph, any iteration order *)

\* the sequences that are permutations of xs
PermutationsOf(xs) ==
    { [k \in 1..Len(xs) |-> xs[o[k]]] : o \in CompletionOrders(Len(xs)) }

GraphNodes == <<"deposit", "withdraw", "sweep">>

MaxEdges == 4

\* the graphs _add_node and _add_edge build over GraphNodes (every target of
\* an edge is a key) with at most MaxEdges edges, in every dict order and
\* every set iteration order
FallbackGraphs ==
    { FallbackGraph(keys, [n \in Range(GraphNodes) |-> {e[2] : e \in {d \in edges : d[1] = n}}],
                    iter) :
        keys \in PermutationsOf(GraphNodes), iter \in PermutationsOf(GraphNodes),
        edges \in {E \in SUBSET (Range(GraphNodes) \X Range(GraphNodes)) :
                     Cardinality(E) <= MaxEdges} }

InitGraph ==
    /\ store = NoFile
    /\ state = EmptyState
    /\ pc = "idle"
    /\ todo = <<>>
    /\ report = NoReport
    /\ runs = 0
    /\ hist = HistInit
    /\ pool = PoolIdle
    /\ agent \in {Call("GraphAnalysis._fallback_cycles", g, NoEnv) : g \in FallbackGraphs}

NextGraph == FallbackCycles

SpecGraph == InitGraph /\ [][NextGraph]_vars

----------------------------------------------------------------------------
(* Properties *)

\* The fields a stage of Kernel.run can change are the same in the persisted
\* payload p and in the state c that validate_state was last called on.
SeenByValidate(p, c) ==
    /\ p.static_scan = c.static_scan
    /\ p.escalation_level = c.escalation_level
    /\ p.capabilities = c.capabilities
    /\ p.findings = c.findings

\* The four conditions under which validate_state is said to return [].
FindingHasProvenance(f) == f.kind = "dict" /\ Range(ProvenanceFields) \subseteq f.keys

ProvenanceComplete(st) ==
    \A i \in 1..Len(collect_findings(st)) : FindingHasProvenance(collect_findings(st)[i])

LedgerPresent(st) ==
    /\ st.capabilities.present
    /\ st.capabilities.executed.shape \in {"list", "map"}
    /\ st.capabilities.skipped.shape \in {"list", "map"}

BudgetRespected(st) ==
    \/ ~st.budget.present
    \/ st.budget.spent = NONE
    \/ /\ st.budget.last_spent = NONE \/ st.budget.spent >= st.budget.last_spent
       /\ st.budget.cap = NONE \/ st.budget.spent <= st.budget.cap

EscalationJustified(st) ==
    \/ st.escalation_level = NONE
    \/ st.escalation_previous = NONE
    \/ st.escalation_level >= st.escalation_previous
    \/ st.escalation_reason

\* the entry Kernel.run is to record for an unavailable static analyzer
IsUnavailableSkip(e) ==
    e.name = "static_scan" /\ e.reason \in {"slither_unavailable"}

\* C1: whenever a validate_state call of Kernel.run has returned a non-empty
\* list, the run has ended at that call: the persisted state has status
\* "failed_invariant" and invariant_errors equal to the returned list, and a
\* report exists whose "## Errors" section lists exactly those errors.
C1_FailureEndsRunWithReport ==
    (hist.calls > 0 /\ hist.errors # <<>>) =>
        /\ pc = "done"
        /\ store.exists
        /\ store.payload.status = "failed_invariant"
        /\ store.payload.invariant_errors = hist.errors
        /\ report.exists
        /\ report.errors = hist.errors

\* C1 witness: a run on a budget whose spent is below last_spent has ended
\* with the "Budget spent decreased" error persisted and reported.
C1_Witness ==
    /\ pc = "done"
    /\ hist.errors = <<Err("Budget spent decreased from previous value.", NONE, "")>>
    /\ hist.checked.budget.spent < hist.checked.budget.last_spent
    /\ store.payload.status = "failed_invariant"
    /\ store.payload.invariant_errors = hist.errors
    /\ report.exists
    /\ report.errors = hist.errors

\* C2: once a run has stopped, every change a stage persisted has been seen by
\* a validate_state call (validate_state runs on the state after the mutation
\* of every stage).
C2_EveryStageMutationValidated ==
    (pc \in {"done", "raised"}) => SeenByValidate(store.payload, hist.checked)

\* C3: a run started on a store with no state file ends with persisted status
\* "completed" and a written report.
C3_FreshRunCompletes ==
    (hist.fresh /\ pc \in {"done", "raised"}) =>
        /\ store.payload.status = "completed"
        /\ report.exists

\* C4: validate_state returns the empty list if and only if every finding
\* carries its provenance keys, capabilities has both collections (in the list
\* or the map shape), the budget is respected and the escalation level has not
\* dropped without a reason.
C4_ValidateIffConditions ==
    (hist.calls > 0) =>
        ( (hist.errors = <<>>)
          <=> /\ ProvenanceComplete(hist.checked)
              /\ LedgerPresent(hist.checked)
              /\ BudgetRespected(hist.checked)
              /\ EscalationJustified(hist.checked) )

\* C5: when RunnerPool.run has returned, its results, merge_findings and
\* merge_artifacts are what the sequential run over the same jobs returns,
\* whatever the order in which the concurrent jobs completed.
C5_PoolOutputsOrderIndependent ==
    (pool.pc = "done") =>
        /\ pool.results = PoolDone(pool, pool.outs).results
        /\ pool.findings = PoolDone(pool, pool.outs).findings
        /\ pool.artifacts = PoolDone(pool, pool.outs).artifacts

\* C6: the static_scan record a run persists is the record a run with
\* parallel_tools=False persists from the same state and the same tool
\* outputs: the completion order of the jobs does not show in the state file.
C6_PersistedStateOrderIndependent ==
    (hist.stage = "static_scan" /\ hist.slither # ABSENT) =>
        store.payload.static_scan = hist.sequential

\* C7: in a run started on a record created by ensure_state_file (status
\* "initialized"), every state persisted while the run is under way has status
\* "running", and once the run has stopped status is "completed" or
\* "failed_invariant".
C7_StatusLifecycle ==
    (hist.status0 = "initialized" /\ pc # "idle") =>
        /\ (pc \in {"validate", "replay"}) => store.payload.status = "running"
        /\ (pc \in {"done", "raised"}) =>
               store.payload.status \in {"completed", "failed_invariant"}

\* C8: once the persisted status is "completed" or "failed_invariant", no step
\* of the Kernel (a further run included) changes it to another value.
C8_TerminalStatusKept ==
    [][ (store.exists /\ store.payload.status \in {"completed", "failed_invariant"})
        => store'.payload.status = store.payload.status ]_vars

\* C9: in every persisted state, invariant_errors is present and non-empty
\* only if status is "failed_invariant".
C9_ErrorsOnlyWhenFailed ==
    (store.exists /\ store.payload.invariant_errors # <<>>) =>
        store.payload.status = "failed_invariant"

\* C9 witness: a second run on a store that holds a failure record passed the
\* first validate_state call and went on; the record is still marked failed.
C9_Witness ==
    /\ runs = 2
    /\ pc = "raised"
    /\ hist.errors = <<>>
    /\ store.payload.invariant_errors # <<>>
    /\ store.payload.status = "failed_invariant"

\* C10: after the static-analysis stage ran with the analyzer unavailable, the
\* stage result has status "skipped", every signal count is 0, the escalation
\* level is untouched, static_scan is in capabilities.skipped with a reason
\* ending in "_unavailable" and not in capabilities.executed, and the run goes
\* on.
C10_UnavailableAnalyzerIsSkip ==
    (hist.stage = "static_scan" /\ hist.slither = "skipped") =>
        /\ store.payload.static_scan.status = "skipped"
        /\ store.payload.static_scan.signals = ZeroSignals
        /\ store.payload.escalation_level = hist.checked.escalation_level
        /\ \E i \in 1..Len(store.payload.capabilities.skipped.items) :
               IsUnavailableSkip(store.payload.capabilities.skipped.items[i])
        /\ \A i \in 1..Len(store.payload.capabilities.executed.items) :
               store.payload.capabilities.executed.items[i].name # "static_scan"
        /\ pc # "raised"

\* the signal each check name of the inputs is to count for: reentrancy
\* first, then unchecked-return, then delegatecall/low-level/call
ClaimedSignal(check) ==
    CASE check \in {"reentrancy-eth", "reentrancy-unchecked-return-call"} -> "reentrancy"
      [] check = "unchecked-return" -> "unchecked_return"
      [] check = "controlled-delegatecall" -> "delegatecall"
      [] OTHER -> "none"

ClaimedCount(detectors, signal) ==
    Cardinality({i \in 1..Len(detectors) : ClaimedSignal(detectors[i].check) = signal})

\* C11: after StaticScan.run, each detector is counted for at most one signal
\* by the priority reentrancy, unchecked-return, delegatecall/low-level/call;
\* escalation_level is at least 1 when some count reaches its threshold and
\* is left as it was (unset if it was unset) when none does.
C11_SignalsAndEscalation ==
    (hist.stage = "static_scan" /\ hist.slither # ABSENT) =>
        LET sig == store.payload.static_scan.signals
            met == \E k \in {"reentrancy", "unchecked_return", "delegatecall"} :
                       sig[k] >= thresholds[k]
        IN /\ sig = [reentrancy |-> ClaimedCount(hist.detectors, "reentrancy"),
                     unchecked_return |-> ClaimedCount(hist.detectors, "unchecked_return"),
                     delegatecall |-> ClaimedCount(hist.detectors, "delegatecall")]
           /\ met => store.payload.escalation_level >= 1
           /\ ~met => store.payload.escalation_level = hist.checked.escalation_level

\* C11 witness: a scan with one reentrancy, one unchecked-return and one
\* dangerous-call detector has stored signals 1/1/1 and escalation_level 1.
C11_Witness ==
    /\ hist.stage = "static_scan"
    /\ hist.detectors = <<DReentrancy, DUnchecked, DDelegate>>
    /\ store.payload.static_scan.signals
         = [reentrancy |-> 1, unchecked_return |-> 1, delegatecall |-> 1]
    /\ store.payload.escalation_level = 1

\* C12: the static-analysis stage does not lower escalation_level: the level
\* it leaves is an integer in [0,3] that is at least the level before the
\* stage (and at least 1 when a signal threshold is met).
C12_EscalationNeverLowered ==
    (hist.stage = "static_scan" /\ hist.slither # ABSENT
       /\ hist.checked.escalation_level # NONE) =>
        /\ store.payload.escalation_level \in 0..MaxEscalation
        /\ store.payload.escalation_level >= hist.checked.escalation_level
        /\ _should_escalate(store.payload.static_scan.signals)
             => store.payload.escalation_level >= 1

\* the gate as stated: cap set and cap - spent >= 0 (spent missing counts 0)
FuzzBudgetClaimed(st) ==
    /\ st.budget.cap # NONE
    /\ st.budget.cap - (IF st.budget.spent = NONE THEN 0 ELSE st.budget.spent) >= 0

FuzzThresholdClaimed(st) ==
    \/ st.static_scan.present /\ SumSignals(st.static_scan.signals) >= static_threshold
    \/ st.graph_analysis.present /\ st.graph_analysis.score >= graph_threshold

\* C13: FuzzAgent.should_run returns True if and only if cap is set,
\* cap - spent >= 0 and the static or the graph score reaches its threshold;
\* with the budget condition met and both scores below their thresholds it
\* returns (False, "threshold_not_met").
C13_FuzzGate ==
    (agent.op = "FuzzAgent.should_run" /\ agent.pc = "returned") =>
        /\ agent.out.ok <=> (FuzzBudgetClaimed(agent.arg) /\ FuzzThresholdClaimed(agent.arg))
        /\ (FuzzBudgetClaimed(agent.arg) /\ ~FuzzThresholdClaimed(agent.arg))
             => agent.out = [ok |-> FALSE, reason |-> "threshold_not_met"]

\* the ledger bucket b has an entry for the capability `name`
InBucket(b, name) == \E i \in 1..Len(b.items) : b.items[i].name = name

\* Kernel.run has returned or raised
RunStopped == pc \in {"done", "raised"}

\* C14: a run started on a state with the map-shaped ledger, budget
\* {spent: 0, cap: 0} and all signal scores 0 is not aborted, and its final
\* state has fuzz_agent in capabilities.skipped.
C14_FuzzSkipRecorded ==
    (/\ RunStopped
     /\ hist.calls > 0
     /\ hist.checked.capabilities = DefaultCapabilities
     /\ hist.checked.budget.spent = 0 /\ hist.checked.budget.cap = 0
     /\ hist.checked.static_scan.present
     /\ SumSignals(hist.checked.static_scan.signals) = 0) =>
        /\ InBucket(store.payload.capabilities.skipped, "fuzz_agent")
        /\ store.payload.status # "failed_invariant"
        /\ pc = "done"

\* the finding score_findings ranks first (only used when there is one)
TopFinding(st) == score_findings(collect_findings(st))[1].finding

\* the three conditions of the repair gate, as stated
RepairEvidence(f) == _normalize_level(f.confidence) = "high" /\ f.repro_steps # ""

RepairBudget(st) ==
    /\ st.budget.cap # NONE
    /\ st.budget.cap - (IF st.budget.spent = NONE THEN 0 ELSE st.budget.spent) >= min_budget

\* C15: RepairAgent.should_run decides on the top-ranked finding: it returns
\* (True, "eligible") if and only if that finding has confidence high, a
\* non-empty repro field and cap - spent >= the minimum with cap set; else the
\* reason is "no_findings", then "insufficient_evidence", then
\* "insufficient_budget".
C15_RepairGate ==
    (agent.op = "RepairAgent.should_run" /\ agent.pc = "returned") =>
        LET st == agent.arg
            none == collect_findings(st) = <<>>
        IN /\ agent.out.ok <=>
                (~none /\ RepairEvidence(TopFinding(st)) /\ RepairBudget(st))
           /\ agent.out.ok => agent.out.reason = "eligible"
           /\ none => agent.out.reason = "no_findings"
           /\ (~none /\ ~RepairEvidence(TopFinding(st)))
                => agent.out.reason = "insufficient_evidence"
           /\ (~none /\ RepairEvidence(TopFinding(st)) /\ ~RepairBudget(st))
                => agent.out.reason = "insufficient_budget"
           /\ ~none => agent.out.finding = TopFinding(st)

\* C15 witness: a finding with confidence high and repro steps, ranked below a
\* higher-scoring finding without repro steps, is not repaired although the
\* budget would allow it.
C15_Witness ==
    /\ agent.op = "RepairAgent.should_run"
    /\ agent.pc = "returned"
    /\ agent.arg.findings.items
         = <<RepairFinding("high", "steps", "", "x"), RepairFinding("high", "", "High", "z")>>
    /\ RepairBudget(agent.arg)
    /\ agent.out.reason = "insufficient_evidence"

\* C16: when the repair gate is open, RepairAgent.run records status "success"
\* if and only if the verifier reported resolved == true or a score_after
\* strictly below the top-ranked finding's score; otherwise (no verifier
\* included) it records status "failed" with a reason; either way the record
\* carries the patch path and the finding's source_tool, and is what the
\* state file holds.
C16_RepairOutcome ==
    (agent.op = "RepairAgent.run" /\ agent.pc = "returned"
       /\ RepairAgent_should_run(agent.arg).ok) =>
        LET top == score_findings(collect_findings(agent.arg))[1]
            improved == /\ agent.env.present
                        /\ \/ agent.env.resolved = "True"
                           \/ agent.env.score_after # NONE
                              /\ agent.env.score_after < top.score
        IN /\ agent.out.status = (IF improved THEN "success" ELSE "failed")
           /\ ~improved => ("reason" \in agent.out.keys /\ agent.out.reason # ABSENT)
           /\ agent.out.patch_path = PatchPath
           /\ agent.out.source_tool = top.finding.source_tool
           /\ store.payload.repair = agent.out

\* C16 witness: a verifier that reports no resolution and a score_after equal
\* to the score before leaves the repair failed.
C16_Witness ==
    /\ agent.op = "RepairAgent.run"
    /\ agent.pc = "returned"
    /\ RepairAgent_should_run(agent.arg).ok
    /\ agent.env.present
    /\ agent.env.resolved = "False"
    /\ agent.env.score_after = score_findings(collect_findings(agent.arg))[1].score
    /\ agent.out.status = "failed"
    /\ agent.out.reason = "verification_failed"

\* LLM_MIN_BUDGET as Kernel._has_llm_budget defaults it
llm_min_budget == 1

\* the budget condition of the LLM stage, as stated
LlmBudgetClaimed(st) ==
    /\ st.budget.present
    /\ st.budget.cap # NONE
    /\ st.budget.cap - (IF st.budget.spent = NONE THEN 0 ELSE st.budget.spent)
         >= llm_min_budget

\* the reason the LLM stage skips for on a state with no backend configured
LlmSkipReasonClaimed(st) ==
    IF collect_findings(st) = <<>> THEN "no_findings"
    ELSE IF ~LlmBudgetClaimed(st) THEN "insufficient_budget"
    ELSE "llm_unavailable"

\* the run was started on a valid state whose ledger is {executed: [], skipped: []}
StartedOnEmptyListLedger ==
    /\ hist.calls > 0
    /\ hist.errors = <<>>
    /\ hist.checked.capabilities = ListCapabilities(<<>>, <<>>)

\* C17: a run started on a state with the empty list-shaped ledger and no LLM
\* backend configured completes, llm_synthesis.status is "skipped", and
\* capabilities.skipped has an llm_synthesis entry whose reason is
\* "no_findings", else "insufficient_budget", else "llm_unavailable".
C17_LlmSkipOrder ==
    (RunStopped /\ StartedOnEmptyListLedger) =>
        /\ pc = "done"
        /\ store.payload.status = "completed"
        /\ store.payload.llm_synthesis.status = "skipped"
        /\ \E i \in 1..Len(store.payload.capabilities.skipped.items) :
             LET e == store.payload.capabilities.skipped.items[i]
             IN e.name = "llm_synthesis"
                /\ e.reason = LlmSkipReasonClaimed(hist.checked)

\* C18: when the gates of the LLM stage are open (findings, budget) and the
\* summarizer answers with an error, the run is not aborted: it ends with a
\* written report, capabilities.skipped has an llm_synthesis entry with reason
\* "llm_error", capabilities.executed has none, and state.llm_synthesis is
\* the summarizer's result.
C18_LlmErrorKeepsRun ==
    (/\ RunStopped
     /\ StartedOnEmptyListLedger
     /\ collect_findings(hist.checked) # <<>>
     /\ LlmBudgetClaimed(hist.checked)) =>
        /\ pc = "done"
        /\ report.exists
        /\ store.payload.llm_synthesis.present
        /\ InBucket(store.payload.capabilities.skipped, "llm_synthesis")
        /\ ~InBucket(store.payload.capabilities.executed, "llm_synthesis")

\* the reason the enrichment stage skips for when nothing is configured
SoloditSkipReasonClaimed(st) ==
    IF st.escalation_level = NONE \/ st.escalation_level < 2
    THEN "escalation_level" ELSE "solodit_unavailable"

\* C19: for a run started with a map-shaped ledger and static_scan and
\* graph_analysis present, with no enrichment client or fixture configured,
\* the final state has capabilities.skipped.solodit.reason equal to
\* "escalation_level" when escalation_level is absent or below 2, and to
\* "solodit_unavailable" when it is 2 or more.
C19_SoloditGate ==
    (/\ RunStopped
     /\ hist.calls > 0
     /\ hist.checked.capabilities = DefaultCapabilities
     /\ hist.checked.static_scan.present
     /\ hist.checked.graph_analysis.present) =>
        \E i \in 1..Len(store.payload.capabilities.skipped.items) :
            LET e == store.payload.capabilities.skipped.items[i]
            IN e.name = "solodit" /\ e.reason = SoloditSkipReasonClaimed(hist.checked)

\* C20: every result SoloditSignalBooster.enrich returns carries a disclaimer
\* field, whatever the outcome (success, error response, missing offline
\* fixture, network or decode failure, client unavailable).
C20_DisclaimerAlways ==
    (agent.op = "SoloditSignalBooster.enrich" /\ agent.pc = "returned") =>
        /\ "disclaimer" \in agent.out.keys
        /\ agent.out.disclaimer # ABSENT

\* the weights of the scoring contract, as stated
ClaimedSeverityWeight(f) ==
    LET level == IF f.severity # "" THEN f.severity
                 ELSE IF f.category = "reentrancy" THEN "high"
                 ELSE IF f.category = "unchecked_return" THEN "medium"
                 ELSE "low"
    IN CASE level = "critical" -> 5 [] level = "high" -> 4 [] level = "medium" -> 2
         [] level = "low" -> 1 [] OTHER -> 0

ClaimedConfidenceWeight(f) ==
    CASE f.confidence = "high" -> 3 [] f.confidence = "medium" -> 2
      [] f.confidence = "low" -> 1 [] OTHER -> 0

ClaimedEvidencePoints(f, files, skipped_any) ==
    (IF f.source_tool # "" /\ (\E i \in 1..Len(f.artifact_paths) : f.artifact_paths[i] \in files)
     THEN 2 ELSE 0 - 1)
    + (IF f.repro_steps # "" THEN 1 ELSE 0)
    - (IF skipped_any THEN 1 ELSE 0)

\* C23: the score_total of Scorer._score_finding is severity weight +
\* confidence weight + evidence points, the evidence points being +2 with
\* provenance and an existing artifact (else -1), +1 with a reproducibility
\* field, -1 with a relevant capability skipped; a reproducibility field
\* raises the total by exactly 1.
C23_ScoreIsAdditive ==
    (agent.op = "Scorer._score_finding" /\ agent.pc = "returned") =>
        agent.out.score_total =
            ClaimedSeverityWeight(agent.arg) + ClaimedConfidenceWeight(agent.arg)
            + ClaimedEvidencePoints(agent.arg, agent.env.files, agent.env.skipped_any)

\* C27: a scoreboard entry's status is "unknown" when no previous-scores map
\* is supplied; otherwise "new" if the map has no entry for the finding's
\* id, "regressed" if the new score_total is strictly greater than the
\* previous score_total, and "unchanged" in every remaining case.
C27_EntryStatus ==
    (agent.op = "Scorer._score_finding" /\ agent.pc = "returned") =>
        LET previous == agent.env.previous
            id == agent.out.finding_id
        IN /\ ~previous.present => agent.out.status = "unknown"
           /\ (previous.present /\ id \notin DOMAIN previous.map)
                => agent.out.status = "new"
           /\ (previous.present /\ id \in DOMAIN previous.map
               /\ previous.map[id] # NONE)
                => agent.out.status =
                     (IF agent.out.score_total > previous.map[id]
                      THEN "regressed" ELSE "unchanged")

\* C27 witness: a finding scored exactly as in the previous run is "unchanged".
C27_Witness ==
    /\ agent.op = "Scorer._score_finding"
    /\ agent.pc = "returned"
    /\ agent.env.previous.present
    /\ agent.out.finding_id \in DOMAIN agent.env.previous.map
    /\ agent.env.previous.map[agent.out.finding_id] = agent.out.score_total
    /\ agent.out.status = "unchanged"

\* what C22 compares: each entry's id, score_total and evidence_strength
ScoresOf(scoreboard) ==
    [k \in 1..Len(scoreboard.entries) |->
        << scoreboard.entries[k].finding_id, scoreboard.entries[k].score_total,
           scoreboard.entries[k].evidence_strength >>]

\* C22: build_scoreboard subtracts the skipped-capability penalty whenever a
\* relevant stage is recorded as skipped, identically for the two ledger
\* shapes: a state recording a skipped stage in the map shape gets the same
\* score_total and evidence_strength for every finding as the state
\* recording it in the list-of-entries shape.
C22_LedgerShapesScoreAlike ==
    \A name \in {"static_scan", "llm_synthesis"} :
        (/\ agent.op = "Scorer.build_scoreboard"
         /\ agent.pc = "returned"
         /\ agent.arg.capabilities = SkippedLedger("map", name)) =>
            ScoresOf(agent.out) =
                ScoresOf(build_scoreboard(
                    [agent.arg EXCEPT !.capabilities = SkippedLedger("list", name)],
                    agent.env.files, agent.env.previous))

\* C24: ranking is independent of insertion order: for every list of findings
\* and every permutation of it, score_findings returns the same sequence and
\* build_scoreboard the same sequence of entries.
C24_RankingOrderIndependent ==
    /\ (agent.op = "score_findings" /\ agent.pc = "returned") =>
          \A xs \in PermutationsOf(agent.arg) : score_findings(xs) = agent.out.scored
    /\ (agent.op = "Scorer.build_scoreboard" /\ agent.pc = "returned") =>
          \A xs \in PermutationsOf(agent.arg.findings.items) :
              build_scoreboard([agent.arg EXCEPT !.findings.items = xs],
                               agent.env.files, agent.env.previous).entries
                = agent.out.entries

\* the three components of the identity, as stated
ClaimedTitle(f) == IF f.title # "" THEN f.title ELSE f.description

ClaimedLocation(f) ==
    IF f.path # "" THEN f.path \o ":" \o f.lines
    ELSE IF f.artifact_paths # <<>> THEN f.artifact_paths[1] ELSE ""

JoinedIdentity(f) ==
    (IF f.title # "" THEN f.title
     ELSE IF f.description # "" THEN f.description
     ELSE IF f.check # "" THEN f.check
     ELSE IF f.category # "" THEN f.category
     ELSE "finding")
    \o "|" \o (IF f.category # "" THEN f.category ELSE "unknown")
    \o "|" \o ClaimedLocation(f)

C29_StoreContract ==
    (agent.op = "StateStore" /\ agent.out.last # ABSENT)
        => /\ agent.out.last = "ensure_state_file"
                => /\ store.exists
                   /\ agent.out.before.exists => store = agent.out.before
                   /\ ~agent.out.before.exists
                        => store.payload = [EmptyState EXCEPT !.status = "initialized"]
                   /\ agent.out.prev = "ensure_state_file" => store = agent.out.before
           /\ agent.out.last = "load"
                => /\ store = agent.out.before
                   /\ agent.out.saved.present
                        => agent.out.loaded = agent.out.saved.payload
                   /\ ~store.exists
                        => agent.out.loaded = [EmptyState EXCEPT !.status = "missing"]

\* a file is saved, ensured and then loaded as saved
C29_Witness ==
    /\ agent.op = "StateStore"
    /\ agent.pc = "returned"
    /\ agent.out.last = "load"
    /\ agent.out.prev = "ensure_state_file"
    /\ agent.out.saved.present
    /\ agent.out.loaded.status = "completed"
    /\ ~agent.env.initial.exists

\* C31: every stage-output record a Kernel.run writes into the state carries
\* a status key; for the record of the static-analysis stage, the only stage
\* a run reaches: once the stage has run, the persisted static_scan record is
\* present and has the key "status".
C31_StageRecordHasStatus ==
    hist.sequential.present
        => /\ store.payload.static_scan.present
           /\ "status" \in store.payload.static_scan.keys

\* the messages of an error list
Messages(errors) == {errors[i].msg : i \in 1..Len(errors)}

\* C32: one validate_state call reports every violation: on a state whose
\* budget.spent is below last_spent and above cap, whose escalation_level is
\* below escalation_previous without a reason, which has a finding lacking a
\* provenance key and a capabilities section lacking executed or skipped, the
\* returned list has an error for each of the five.
C32_AllViolationsReported ==
    ( /\ agent.op = "validate_state"
      /\ agent.pc # "call"
      /\ agent.arg.budget.present
      /\ agent.arg.budget.spent # NONE
      /\ agent.arg.budget.last_spent # NONE
      /\ agent.arg.budget.spent < agent.arg.budget.last_spent
      /\ agent.arg.budget.cap # NONE
      /\ agent.arg.budget.spent > agent.arg.budget.cap
      /\ ~EscalationJustified(agent.arg)
      /\ ~ProvenanceComplete(agent.arg)
      /\ agent.arg.capabilities.present
      /\ ABSENT \in {agent.arg.capabilities.executed.shape,
                     agent.arg.capabilities.skipped.shape} )
        => {"Budget spent decreased from previous value.",
            "Budget spent exceeds budget cap.",
            "Escalation level decreased without justification.",
            "Finding missing provenance field.",
            "Capabilities missing executed/skipped lists."}
              \subseteq Messages(agent.out.first.errors)

\* validate_state has returned on a state with the five violations
C32_Witness ==
    /\ agent.op = "validate_state"
    /\ agent.pc = "again"
    /\ agent.arg.budget = [present |-> TRUE, spent |-> 1, cap |-> 0, last_spent |-> 2]
    /\ agent.arg.escalation_level = 0
    /\ agent.arg.escalation_previous = 1
    /\ ~agent.arg.escalation_reason
    /\ agent.arg.findings.items = <<GoodFinding, NoConfidenceFinding>>
    /\ agent.arg.capabilities.skipped.shape = ABSENT
    /\ Len(agent.out.first.errors) = 5

\* C33: validate_state changes nothing in the state but its own bookkeeping
\* fields budget.last_spent and escalation_previous: findings, static_scan,
\* capabilities, status, target_path, budget.spent, budget.cap and
\* escalation_level are after the call what they were before it, whether or
\* not errors are reported.
C33_ValidateFrame ==
    (agent.op = "validate_state" /\ agent.pc # "call")
        => /\ agent.out.first.state.findings = agent.arg.findings
           /\ agent.out.first.state.static_scan = agent.arg.static_scan
           /\ agent.out.first.state.capabilities = agent.arg.capabilities
           /\ agent.out.first.state.status = agent.arg.status
           /\ agent.out.first.state.target_path = agent.arg.target_path
           /\ agent.out.first.state.budget.spent = agent.arg.budget.spent
           /\ agent.out.first.state.budget.cap = agent.arg.budget.cap
           /\ agent.out.first.state.escalation_level = agent.arg.escalation_level

\* a call that reported errors and moved both baselines
C33_Witness ==
    /\ agent.op = "validate_state"
    /\ agent.pc = "again"
    /\ Len(agent.out.first.errors) >= 3
    /\ agent.arg.findings.present
    /\ agent.arg.static_scan.present
    /\ agent.out.first.state.budget.last_spent # agent.arg.budget.last_spent
    /\ agent.out.first.state.escalation_previous # agent.arg.escalation_previous

\* C37: validate_state records the current values as the next baseline even
\* when it reports a violation: after a call on a state with budget.spent set
\* budget.last_spent = budget.spent, and with escalation_level set
\* escalation_previous = escalation_level, so a second call on the state it
\* left reports neither a budget decrease nor an escalation decrease.
C37_BaselineRecorded ==
    (agent.op = "validate_state" /\ agent.pc # "call")
        => /\ (agent.arg.budget.present /\ agent.arg.budget.spent # NONE)
                => agent.out.first.state.budget.last_spent = agent.arg.budget.spent
           /\ agent.arg.escalation_level # NONE
                => agent.out.first.state.escalation_previous = agent.arg.escalation_level
           /\ agent.pc = "returned"
                => {"Budget spent decreased from previous value.",
                    "Escalation level decreased without justification."}
                     \cap Messages(agent.out.second.errors) = {}

\* the first call reported both decreases and the second has returned
C37_Witness ==
    /\ agent.op = "validate_state"
    /\ agent.pc = "returned"
    /\ {"Budget spent decreased from previous value.",
        "Escalation level decreased without justification."}
         \subseteq Messages(agent.out.first.errors)
    /\ agent.out.second.errors # <<>>

\* The same in a run (Spec): the state that _handle_invariant_failure persists
\* is the one validate_state has left, so it holds the new baselines.
FailedRunKeepsBaseline ==
    (pc = "done" /\ hist.errors # <<>>)
        => /\ (store.payload.budget.present /\ store.payload.budget.spent # NONE)
               => store.payload.budget.last_spent = store.payload.budget.spent
           /\ store.payload.escalation_level # NONE
               => store.payload.escalation_previous = store.payload.escalation_level

\* the walks of a graph: node sequences of 2 to Len(keys) + 1 nodes along edges
Walks(graph) ==
    { w \in UNION { [1..k -> Range(graph.keys)] : k \in 2..(Len(graph.keys) + 1) } :
        \A i \in 1..(Len(w) - 1) : w[i + 1] \in graph.succ[w[i]] }

\* C36: _fallback_cycles returns a non-empty list if and only if the graph
\* has a directed cycle (a self-loop is one), and every list it returns is a
\* walk along edges of the graph whose first and last nodes are the same.
C36_FallbackCyclesSound ==
    (agent.op = "GraphAnalysis._fallback_cycles" /\ agent.pc = "returned")
        => /\ (agent.out.cycles # <<>>)
                <=> (\E w \in Walks(agent.arg) : w[1] = w[Len(w)])
           /\ \A i \in 1..Len(agent.out.cycles) :
                /\ agent.out.cycles[i] \in Walks(agent.arg)
                /\ agent.out.cycles[i][1] = agent.out.cycles[i][Len(agent.out.cycles[i])]

\* a self-loop and a longer cycle are both returned
C36_Witness ==
    /\ agent.op = "GraphAnalysis._fallback_cycles"
    /\ agent.pc = "returned"
    /\ \E i, j \in 1..Len(agent.out.cycles) :
         /\ Len(agent.out.cycles[i]) = 2
         /\ Len(agent.out.cycles[j]) = 4
EntryNames(b) == [i \in 1..Len(b.items) |-> b.items[i].name]

\* C35: after any sequence of _record_capability_executed and
\* _record_capability_skipped calls on one state, each stage name has at most
\* one entry in a bucket, and no stage name is in capabilities.executed and
\* in capabilities.skipped at the same time.
C35_RecordExclusive ==
    agent.op = "Kernel._record_capability"
        => \E executed \in {EntryNames(agent.out.state.capabilities.executed)} :
           \E skipped \in {EntryNames(agent.out.state.capabilities.skipped)} :
              /\ \A i, j \in 1..Len(executed) : executed[i] = executed[j] => i = j
              /\ \A i, j \in 1..Len(skipped) : skipped[i] = skipped[j] => i = j
              /\ Range(executed) \cap Range(skipped) = {}

\* <<spent, cap>> of the budget a run on the state file s works with: the
\* stored budget, or the default {"spent": 0, "cap": 0} when the file or the
\* key is missing
BudgetOf(s) ==
    IF s.exists /\ s.payload.budget.present
    THEN <<s.payload.budget.spent, s.payload.budget.cap>>
    ELSE <<0, 0>>

\* C38: no step of Kernel.run consumes budget: every step (the preparation,
\* the validations, the queued agents, the static stage, across runs on one
\* store) leaves budget.spent and budget.cap of the persisted state as they
\* were in the state file the run started on, defaulting to spent 0, cap 0,
\* and the state dict of a run in progress holds the same values.
C38_BudgetNotConsumed ==
    [][/\ BudgetOf(store') = BudgetOf(store)
       /\ pc' \in {"validate", "replay"}
            => <<state'.budget.spent, state'.budget.cap>> = BudgetOf(store)]_vars

\* a second run on a store with spent budget has gone through the static
\* stage (validate_state passed and wrote its baseline)
C38_Witness ==
    /\ runs = 2
    /\ hist.sequential.present
    /\ store.payload.budget.spent > 0
    /\ store.payload.budget.last_spent = store.payload.budget.spent

\* the fields that tell the findings of a scored state apart, read from an
\* item of score_findings and from a scoreboard entry
ItemFields(item) ==
    << item.severity, item.confidence, item.finding.artifact_paths,
       HasRepro(item.finding) >>

EntryFields(entry) ==
    << entry.severity, entry.confidence, entry.artifact_paths, entry.reproducible >>

\* C39: the two scoring paths agree on ranking: the order score_findings
\* gives to the findings of a state is the order of their entries in the
\* scoreboard build_scoreboard builds for that state, and the finding ranked
\* first is the same in both.
C39_RankingPathsAgree ==
    (agent.op = "Scorer.build_scoreboard" /\ agent.pc = "returned") =>
        \E scored \in {score_findings(collect_findings(agent.arg))} :
            /\ Len(scored) = Len(agent.out.entries)
            /\ \A k \in 1..Len(scored) :
                  ItemFields(scored[k]) = EntryFields(agent.out.entries[k])

====
